---------------------------- MODULE Spec2Model ----------------------------
(***************************************************************************)
(* Model of the per-file ingestion pipeline of sortbook_v5:                *)
(*   src/src/core/pipeline.py   run_pipeline and its helpers               *)
(*   src/src/tasks/extract.py   the identifier normalizer and validator    *)
(*   src/src/tasks/ocr.py       OCR of the cover candidates                *)
(*   src/src/tasks/integrate.py the workflow response contract             *)
(*   src/src/core/models.py     the WorkflowResponse schema                *)
(*   src/src/db/database.py     the books table and its four operations    *)
(*   src/src/main.py            the batch driver's loop over the files     *)
(*   src/src/core/state.py      the resumable cache of processed files     *)
(*                                                                         *)
(* Python values are modelled as follows.  A dict is a function whose      *)
(* DOMAIN is the set of keys present; None in a string-typed slot is the   *)
(* string None, None in an object-typed slot is the record NoneObj.  A     *)
(* JSON value of the enrichment reply is a string token (Absent when the   *)
(* key is missing, JOther for a truthy value of an unexpected type) or a   *)
(* record tagged by its kind.                                              *)
(***************************************************************************)
EXTENDS Integers, Sequences, FiniteSets, TLC

(***************************************************************************)
(* Bounds of the model.                                                    *)
(***************************************************************************)
\* number of run_pipeline executions the batch driver performs
MaxRuns == 2

(***************************************************************************)
(* Python / JSON value tokens.                                             *)
(***************************************************************************)
None    == "<None>"
NoneObj == [none |-> TRUE]
Absent  == "<absent>"
JTrue   == "true"
JFalse  == "false"
JOther  == "<other-type>"

EmptyDict == [k \in {} |-> None]

\* dict item assignment d[k] = v
Put(d, k, v) == [x \in (DOMAIN d) \cup {k} |-> IF x = k THEN v ELSE d[x]]

\* dict.get(k) for a string-typed slot
Get(d, k) == IF k \in DOMAIN d THEN d[k] ELSE None

Has(d, k) == k \in DOMAIN d

(***************************************************************************)
(* The workflow response contract (src/src/tasks/integrate.py).            *)
(***************************************************************************)

\* payload values of a raw reply
PayloadAbsent == [pk |-> "absent"]
PayloadNull   == [pk |-> "null"]
PayloadOther  == [pk |-> "other"]
PayloadObj(t, a) == [pk |-> "object", title |-> t, author |-> a]

\* errors values of a raw reply
ErrorsAbsent == [ek |-> "absent"]
ErrorsNull   == [ek |-> "null"]
ErrorsOther  == [ek |-> "other"]
ErrorsList(s) == [ek |-> "list", items |-> s]

\* the "raw" key of a response dict
RawAbsent == [rawk |-> "absent"]
RawOf(r)  == [rawk |-> "set", body |-> r]

\* raw replies that are not JSON objects
ReplyNull  == [rk |-> "null"]
ReplyOther == [rk |-> "array"]

ReplyObj(su, so, p, e) ==
    [rk |-> "object", success |-> su, source |-> so, payload |-> p,
     errors |-> e, raw |-> RawAbsent]

IsStr(v)  == v \notin {Absent, None, JOther}
IsBool(v) == v \in {JTrue, JFalse}
\* Python truthiness of a JSON scalar ("not title")
Truthy(v) == v \notin {Absent, None, "", JFalse}

\* return value of a Python call: a value, or a raised exception
Ok(v)        == [raised |-> FALSE, value |-> v]
Raise(ty, m) == [raised |-> TRUE, type |-> ty, msg |-> m]

\* _build_error_response(source, message, raw)
BuildErrorResponse(source, message, raw) ==
    [rk |-> "object", success |-> JFalse, source |-> source,
     payload |-> PayloadObj(Absent, Absent),
     errors |-> ErrorsList(<<message>>),
     raw |-> IF raw = ReplyNull THEN RawAbsent ELSE RawOf(raw)]

\* _build_error_response(source, message): raw defaults to None
BuildErrorResponseNoRaw(source, message) ==
    BuildErrorResponse(source, message, ReplyNull)

MsgNotObject   == "Workflow response must be a JSON object"
MsgMissingKeys == "Workflow response must include 'success' and 'source'"
MsgSuccessType == "'success' must be a boolean"
MsgSourceType  == "'source' must be a string"
MsgPayloadObj  == "Successful workflow response must include a 'payload' object"
MsgTitleAuthor == "Successful workflow response must include 'payload.title' and 'payload.author'"
MsgPayloadType == "'payload' must be an object when provided"
MsgErrorsType  == "'errors' must be an array when provided"
MsgSource(expected, got) ==
    "Unexpected 'source' value: expected '" \o expected \o "', got '" \o got \o "'"

\* the source check of _validate_workflow_response (lines 37-38)
SourceRejected(source, expected_source) == source # expected_source

\* a variant of _validate_workflow_response that forgets the author
ValidateWithoutAuthor(result, expected_source) ==
    IF result.rk # "object" THEN Raise("ValueError", MsgNotObject)
    ELSE IF result.success = Absent \/ result.source = Absent
        THEN Raise("ValueError", MsgMissingKeys)
    ELSE IF ~IsBool(result.success) THEN Raise("ValueError", MsgSuccessType)
    ELSE IF ~IsStr(result.source) THEN Raise("ValueError", MsgSourceType)
    ELSE IF SourceRejected(result.source, expected_source)
        THEN Raise("ValueError", MsgSource(expected_source, result.source))
    ELSE IF result.success = JTrue /\ result.payload.pk # "object"
        THEN Raise("ValueError", MsgPayloadObj)
    ELSE IF result.success = JTrue /\ ~Truthy(result.payload.title)
        THEN Raise("ValueError", MsgTitleAuthor)
    ELSE IF result.success = JFalse /\ result.payload.pk = "other"
        THEN Raise("ValueError", MsgPayloadType)
    ELSE IF result.errors.ek \in {"absent", "null"}
        THEN Ok([result EXCEPT !.errors = ErrorsList(<<>>)])
    ELSE IF result.errors.ek # "list" THEN Raise("ValueError", MsgErrorsType)
    ELSE Ok(result)

\* a variant of _validate_workflow_response that leaves a missing errors
\* list as it is
ValidateErrorsNotDefaulted(result, expected_source) ==
    IF result.rk # "object" THEN Raise("ValueError", MsgNotObject)
    ELSE IF result.success = Absent \/ result.source = Absent
        THEN Raise("ValueError", MsgMissingKeys)
    ELSE IF ~IsBool(result.success) THEN Raise("ValueError", MsgSuccessType)
    ELSE IF ~IsStr(result.source) THEN Raise("ValueError", MsgSourceType)
    ELSE IF SourceRejected(result.source, expected_source)
        THEN Raise("ValueError", MsgSource(expected_source, result.source))
    ELSE IF result.success = JTrue /\ result.payload.pk # "object"
        THEN Raise("ValueError", MsgPayloadObj)
    ELSE IF result.success = JTrue
            /\ (~Truthy(result.payload.title) \/ ~Truthy(result.payload.author))
        THEN Raise("ValueError", MsgTitleAuthor)
    ELSE IF result.success = JFalse /\ result.payload.pk = "other"
        THEN Raise("ValueError", MsgPayloadType)
    ELSE IF result.errors.ek \in {"absent", "null"} THEN Ok(result)
    ELSE IF result.errors.ek # "list" THEN Raise("ValueError", MsgErrorsType)
    ELSE Ok(result)

\* _validate_workflow_response(result, expected_source):
\* Ok(result with errors defaulted) or the ValueError it raises
ValidateWorkflowResponse(result, expected_source) ==
    IF result.rk # "object" THEN Raise("ValueError", MsgNotObject)
    ELSE IF result.success = Absent \/ result.source = Absent
        THEN Raise("ValueError", MsgMissingKeys)
    ELSE IF ~IsBool(result.success) THEN Raise("ValueError", MsgSuccessType)
    ELSE IF ~IsStr(result.source) THEN Raise("ValueError", MsgSourceType)
    ELSE IF SourceRejected(result.source, expected_source)
        THEN Raise("ValueError", MsgSource(expected_source, result.source))
    ELSE IF result.success = JTrue /\ result.payload.pk # "object"
        THEN Raise("ValueError", MsgPayloadObj)
    ELSE IF result.success = JTrue
            /\ (~Truthy(result.payload.title) \/ ~Truthy(result.payload.author))
        THEN Raise("ValueError", MsgTitleAuthor)
    ELSE IF result.success = JFalse /\ result.payload.pk = "other"
        THEN Raise("ValueError", MsgPayloadType)
    ELSE IF result.errors.ek \in {"absent", "null"}
        THEN Ok([result EXCEPT !.errors = ErrorsList(<<>>)])
    ELSE IF result.errors.ek # "list" THEN Raise("ValueError", MsgErrorsType)
    ELSE Ok(result)


\* a variant of the workflow client without the handler of httpx.RequestError
WorkflowClientNoRequestHandler(source, label, t) ==
    IF t.tk = "reply" THEN
        LET v == ValidateWorkflowResponse(t.body, source)
        IN  IF v.raised
            THEN Ok(BuildErrorResponse(source, v.msg, t.body))
            ELSE Ok(v.value)
    ELSE IF t.tk = "badjson" THEN
        Ok(BuildErrorResponseNoRaw(source, "Expecting value: line 1 column 1 (char 0)"))
    ELSE IF t.tk = "http_status" THEN
        Ok(BuildErrorResponseNoRaw(source, label \o " HTTP Error: 500 - " \o "<body>"))
    ELSE IF t.tk \in {"network", "timeout"} THEN
        Raise("RequestError", "<cause>")
    ELSE Raise("RuntimeError", "<unexpected transport fault>")

\* the body of a workflow client after the request is sent
\* (call_n8n_isbn_workflow, lines 84-104): `t` is what the transport does;
\* a timeout is an httpx.TimeoutException, which is an httpx.RequestError
WorkflowClient(source, label, t) ==
    IF t.tk = "reply" THEN
        LET v == ValidateWorkflowResponse(t.body, source)
        IN  IF v.raised
            THEN Ok(BuildErrorResponse(source, v.msg, t.body))
            ELSE Ok(v.value)
    ELSE IF t.tk = "badjson" THEN
        \* response.json() raises a ValueError before raw_result is bound
        Ok(BuildErrorResponseNoRaw(source, "Expecting value: line 1 column 1 (char 0)"))
    ELSE IF t.tk = "http_status" THEN
        Ok(BuildErrorResponseNoRaw(source, label \o " HTTP Error: 500 - " \o "<body>"))
    ELSE IF t.tk \in {"network", "timeout"} THEN
        Ok(BuildErrorResponseNoRaw(source, "Network error calling " \o label \o ": <cause>"))
    ELSE Raise("RuntimeError", "<unexpected transport fault>")

\* call_n8n_isbn_workflow
CallN8nIsbnWorkflow(t) == WorkflowClient("n8n_isbn", "N8N ISBN", t)

\* call_n8n_metadata_workflow
CallN8nMetadataWorkflow(t) == WorkflowClient("n8n_metadata", "N8N Metadata", t)

\* the source tag the consolidated workflow is expected to answer with
ExpectedSource == "sortebook_v5"

\* raw_result as the consolidated client hands it back beside the response
RawResultOf(t) == IF t.tk = "reply" THEN t.body ELSE ReplyNull

\* call_n8n_sortebook_workflow(payload, settings, test_mode, http_client):
\* the pair (normalized, raw_result), or the exception that escapes
CallN8nSortebookWorkflow(t) ==
    LET r == WorkflowClient(ExpectedSource, "SortBook", t)
    IN  IF r.raised THEN r
        ELSE Ok([normalized |-> r.value, raw_result |-> RawResultOf(t)])

(***************************************************************************)
(* WorkflowResponse (src/src/core/models.py).                              *)
(***************************************************************************)
MsgPydantic(field) == "validation error for WorkflowResponse: " \o field

\* payload: Optional[BaseWorkflowPayload]; title: str, author: str
PayloadFieldOk(p) ==
    \/ p.pk \in {"absent", "null"}
    \/ p.pk = "object" /\ IsStr(p.title) /\ IsStr(p.author)

\* raw: Optional[Dict[str, Any]]
RawFieldOk(raw) == raw.rawk = "absent" \/ raw.body.rk = "object"

\* WorkflowResponse.model_validate(normalized): the parsed model, or the
\* ValidationError pydantic raises
ModelValidate(normalized) ==
    IF ~IsBool(normalized.success) THEN Raise("ValidationError", MsgPydantic("success"))
    ELSE IF ~IsStr(normalized.source) THEN Raise("ValidationError", MsgPydantic("source"))
    ELSE IF ~PayloadFieldOk(normalized.payload)
        THEN Raise("ValidationError", MsgPydantic("payload"))
    ELSE IF normalized.errors.ek \notin {"absent", "list"}
        THEN Raise("ValidationError", MsgPydantic("errors"))
    ELSE IF ~RawFieldOk(normalized.raw) THEN Raise("ValidationError", MsgPydantic("raw"))
    ELSE Ok([success |-> normalized.success = JTrue,
             source  |-> normalized.source,
             payload |-> IF normalized.payload.pk = "object"
                         THEN [title |-> normalized.payload.title,
                               author |-> normalized.payload.author]
                         ELSE NoneObj,
             errors  |-> IF normalized.errors.ek = "list"
                         THEN normalized.errors.items ELSE <<>>,
             raw     |-> normalized.raw])

\* " ; ".join(errors)
RECURSIVE JoinErrors(_)
JoinErrors(errors) ==
    IF errors = <<>> THEN ""
    ELSE IF Len(errors) = 1 THEN errors[1]
    ELSE errors[1] \o " ; " \o JoinErrors(Tail(errors))

(***************************************************************************)
(* Input domains of the contract layer.                                    *)
(***************************************************************************)
SuccessValues == {Absent, JTrue, JFalse, JOther}
SourceValues  == {Absent, ExpectedSource, "n8n_isbn", "svc", JOther}
TitleValues   == {Absent, "", "T", JOther}
AuthorValues  == {Absent, "", "A", JOther}
PayloadValues ==
    {PayloadAbsent, PayloadNull, PayloadOther}
        \cup {PayloadObj(t, a) : t \in TitleValues, a \in AuthorValues}
ErrorsValues  ==
    {ErrorsAbsent, ErrorsNull, ErrorsOther,
     ErrorsList(<<>>), ErrorsList(<<"e1">>), ErrorsList(<<"e1", "e2">>)}

RawReplies ==
    {ReplyNull, ReplyOther}
        \cup {ReplyObj(su, so, p, e) : su \in SuccessValues, so \in SourceValues,
                                       p \in PayloadValues, e \in ErrorsValues}

TransportFailures ==
    {[tk |-> "badjson"], [tk |-> "http_status"], [tk |-> "network"],
     [tk |-> "timeout"], [tk |-> "unexpected"]}

Transports == {[tk |-> "reply", body |-> r] : r \in RawReplies} \cup TransportFailures

(***************************************************************************)
(* The books table (src/src/db/database.py).  A row is a dict from column  *)
(* names to values; a column never written is NULL.  The id of a row is    *)
(* its index in the table; NoId models the Python None of book_id.         *)
(***************************************************************************)
NoId == 0

\* a variant of the allow-list that leaves the cover metadata out
UpdateColumnsWithoutCover ==
    {"isbn", "isbn_source", "has_cover", "choice_source", "final_author",
     "final_title", "status", "processing_completed_at", "processing_time_ms",
     "error_message", "json_extract_isbn", "json_extract_metadata",
     "json_n8n_response"}

\* a variant of the allow-list that leaves the identifier out
UpdateColumnsWithoutIsbn ==
    {"isbn_source", "has_cover", "choice_source", "final_author",
     "final_title", "status", "processing_completed_at", "processing_time_ms",
     "error_message", "json_extract_isbn", "json_extract_metadata",
     "json_extract_cover", "json_n8n_response"}

BOOK_UPDATE_COLUMNS ==
    {"isbn", "isbn_source", "has_cover", "choice_source", "final_author",
     "final_title", "status", "processing_completed_at", "processing_time_ms",
     "error_message", "json_extract_isbn", "json_extract_metadata",
     "json_extract_cover", "json_n8n_response"}

\* the keys of the outcome whose values are dicts or lists when set
StructuredKeys ==
    {"json_extract_isbn", "json_extract_metadata", "json_extract_cover",
     "json_extract_text", "json_n8n_response", "json_n8n_response_parsed",
     "epub_metadata", "isbn_candidates", "image_ocr"}

\* json.dumps(value): the text encoding of a structured value
JsonDumps(v) == [json |-> v]

\* the value update_book_entry binds for data[key] (lines 128-131)
BoundValue(key, v) ==
    IF key \in StructuredKeys /\ v # NoneObj THEN JsonDumps(v) ELSE v

\* find_book_by_hash: the ids of the rows the SELECT matches
RowsByHash(table, file_hash) ==
    {i \in 1..Len(table) : table[i]["file_hash"] = file_hash}

\* a variant of find_book_by_hash that only sees rows of finished books
FindBookByHashProcessedOnly(table, file_hash) ==
    \E i \in RowsByHash(table, file_hash) : table[i]["status"] = "processed"

\* find_book_by_hash(pool, file_hash): a row is found
FindBookByHash(table, file_hash) == RowsByHash(table, file_hash) # {}

\* the WHERE clause of find_book_by_isbn (line 92)
IsbnRowMatches(row, isbn) ==
    Get(row, "isbn") = isbn /\ row["status"] = "processed"

\* find_book_by_isbn(pool, isbn): a row is found
FindBookByIsbn(table, isbn) ==
    \E i \in 1..Len(table) : IsbnRowMatches(table[i], isbn)

\* the row create_book_entry inserts (lines 105-115)
PendingRow(file_hash, file) ==
    [file_hash |-> file_hash, filename |-> file.path, file_path |-> file.path,
     status |-> "pending"]

\* the columns update_book_entry sets (lines 123-131)
UpdatedColumns(data) == (DOMAIN data) \cap BOOK_UPDATE_COLUMNS

\* the row after update_book_entry(pool, book_id, data)
UpdatedRow(row, data) ==
    [c \in (DOMAIN row) \cup UpdatedColumns(data) |->
        IF c \in UpdatedColumns(data) THEN BoundValue(c, data[c]) ELSE row[c]]

\* update_book_entry(pool, book_id, data)
UpdateBookEntry(table, book_id, data) ==
    IF UpdatedColumns(data) = {} THEN table
    ELSE [table EXCEPT ![book_id] = UpdatedRow(table[book_id], data)]

(***************************************************************************)
(* The identifier normalizer and validator (src/src/tasks/extract.py).     *)
(* A Python string is a sequence of characters; a character is a string of *)
(* length one, or a token standing for a character outside ASCII.          *)
(***************************************************************************)
\* the ASCII digits
DigitChars == {"0", "1", "2", "3", "4", "5", "6", "7", "8", "9"}

\* SUPERSCRIPT TWO: str.isdigit() is true of it and int() raises on it
SuperscriptTwo == "<sup2>"

\* ARABIC-INDIC DIGIT THREE: str.isdigit() is true of it and int() is 3
ArabicThree == "<arabic3>"

\* c.isdigit()
IsDigit(c) == c \in DigitChars \cup {SuperscriptTwo, ArabicThree}

\* s.isdigit(): every character is a digit and there is at least one
StrIsDigit(s) == s # <<>> /\ \A i \in 1..Len(s) : IsDigit(s[i])

\* int(c) returns a value
IntParses(c) == c \in DigitChars \cup {ArabicThree}

\* int(c)
IntOf(c) == IF c = ArabicThree THEN 3 ELSE CHOOSE n \in 0..9 : ToString(n) = c

\* the letters of the model, in lower and in upper case
LowerLetters == <<"a", "b", "e", "g", "i", "l", "m", "n", "r", "s", "u", "v", "x">>
UpperLetters == <<"A", "B", "E", "G", "I", "L", "M", "N", "R", "S", "U", "V", "X">>

\* c.upper()
Upper(c) ==
    IF \E i \in 1..Len(LowerLetters) : LowerLetters[i] = c
    THEN UpperLetters[CHOOSE i \in 1..Len(LowerLetters) : LowerLetters[i] = c]
    ELSE c

\* c.lower()
Lower(c) ==
    IF \E i \in 1..Len(UpperLetters) : UpperLetters[i] = c
    THEN LowerLetters[CHOOSE i \in 1..Len(UpperLetters) : UpperLetters[i] = c]
    ELSE c

\* the separators _normalize_isbn removes
Separators == {"-", " ", ":"}

\* a variant of _normalize_isbn that removes separators in one pass over
\* adjacent pairs, so that the second of two adjacent separators stays
RECURSIVE NormalizePairwise(_)
NormalizePairwise(value) ==
    IF value = <<>> THEN <<>>
    ELSE IF value[1] \in Separators
        THEN IF Len(value) >= 2 /\ value[2] \in Separators
             THEN <<value[2]>> \o NormalizePairwise(SubSeq(value, 3, Len(value)))
             ELSE NormalizePairwise(Tail(value))
    ELSE <<Upper(value[1])>> \o NormalizePairwise(Tail(value))

\* _normalize_isbn(value)
NormalizeIsbn(value) ==
    LET kept == SelectSeq(value, LAMBDA c : c \notin Separators)
    IN  [i \in 1..Len(kept) |-> Upper(kept[i])]

\* the weights of the two checksums, by 0-based position (lines 178, 191)
Weight10 == [i \in 0..8 |-> 10 - i]
Weight13 == [i \in 0..11 |-> IF i % 2 = 0 THEN 1 ELSE 3]

\* sum(int(digit) * weight[i] for i, digit in enumerate(digits))
RECURSIVE WeightedSum(_, _, _)
WeightedSum(digits, weight, i) ==
    IF i > Len(digits) THEN 0
    ELSE IntOf(digits[i]) * weight[i - 1] + WeightedSum(digits, weight, i + 1)

\* isbn[:-1]
ButLast(isbn) == SubSeq(isbn, 1, Len(isbn) - 1)

\* isbn[-1]
LastChar(isbn) == isbn[Len(isbn)]

\* the check character of an ISBN-10 (lines 180-186)
Check10(total) ==
    LET check_digit == 11 - (total % 11)
    IN  IF check_digit = 11 THEN "0"
        ELSE IF check_digit = 10 THEN "X"
        ELSE ToString(check_digit)

\* the check digit of an ISBN-13 (lines 192-193)
Check13(total) == ToString((10 - (total % 10)) % 10)

MsgInt == "invalid literal for int() with base 10"

\* a variant of _is_valid_isbn whose ISBN-13 branch leaves out the final
\* "% 10" of the check digit
IsValidIsbnNoMod(raw) ==
    LET isbn == NormalizeIsbn(raw)
    IN  IF Len(isbn) = 10 THEN
            IF ~StrIsDigit(ButLast(isbn))
               \/ ~(IsDigit(LastChar(isbn)) \/ LastChar(isbn) = "X")
            THEN Ok(FALSE)
            ELSE IF \E i \in 1..9 : ~IntParses(isbn[i])
            THEN Raise("ValueError", MsgInt)
            ELSE Ok(LastChar(isbn) = Check10(WeightedSum(ButLast(isbn), Weight10, 1)))
        ELSE IF Len(isbn) = 13 THEN
            IF ~StrIsDigit(isbn) THEN Ok(FALSE)
            ELSE IF \E i \in 1..12 : ~IntParses(isbn[i])
            THEN Raise("ValueError", MsgInt)
            ELSE Ok(ToString(10 - (WeightedSum(ButLast(isbn), Weight13, 1) % 10))
                      = LastChar(isbn))
        ELSE Ok(FALSE)

\* _is_valid_isbn(isbn): the boolean it returns, or the ValueError of int()
IsValidIsbn(raw) ==
    LET isbn == NormalizeIsbn(raw)
    IN  IF Len(isbn) = 10 THEN
            IF ~StrIsDigit(ButLast(isbn))
               \/ ~(IsDigit(LastChar(isbn)) \/ LastChar(isbn) = "X")
            THEN Ok(FALSE)
            ELSE IF \E i \in 1..9 : ~IntParses(isbn[i])
            THEN Raise("ValueError", MsgInt)
            ELSE Ok(LastChar(isbn) = Check10(WeightedSum(ButLast(isbn), Weight10, 1)))
        ELSE IF Len(isbn) = 13 THEN
            IF ~StrIsDigit(isbn) THEN Ok(FALSE)
            ELSE IF \E i \in 1..12 : ~IntParses(isbn[i])
            THEN Raise("ValueError", MsgInt)
            ELSE Ok(Check13(WeightedSum(ButLast(isbn), Weight13, 1)) = LastChar(isbn))
        ELSE Ok(FALSE)

\* the characters of a Python string, as a sequence
Chars13A == <<"9", "7", "8", "0", "3", "0", "6", "4", "0", "6", "1", "5", "7">>
Chars10B == <<"0", "3", "0", "6", "4", "0", "6", "1", "5", "2">>
Chars10X == <<"0", "8", "0", "4", "4", "2", "9", "5", "7", "X">>
Chars13C == <<"9", "7", "9", "1", "0", "9", "0", "6", "3", "6", "0", "7", "1">>
Hyphened13A ==
    <<"9", "7", "8", "-", "0", "-", "3", "0", "6", "-", "4", "0", "6", "1", "5", "-", "7">>

\* the Python string made of the characters
RECURSIVE Str(_)
Str(chars) == IF chars = <<>> THEN "" ELSE chars[1] \o Str(Tail(chars))

\* value.strip(), for the blanks of the model
RECURSIVE Strip(_)
Strip(chars) ==
    IF chars = <<>> THEN <<>>
    ELSE IF chars[1] = " " THEN Strip(Tail(chars))
    ELSE IF LastChar(chars) = " " THEN Strip(ButLast(chars))
    ELSE chars

\* list(dict.fromkeys(values)): the first occurrence of each value
RECURSIVE DictFromKeys(_)
DictFromKeys(values) ==
    IF values = <<>> THEN <<>>
    ELSE LET front == DictFromKeys(ButLast(values))
         IN  IF \E i \in 1..Len(front) : front[i] = LastChar(values)
             THEN front ELSE Append(front, LastChar(values))

\* A text, as far as the model goes: its length in characters and the
\* places where ISBN_REGEX matches, each with its offset and the characters
\* of group 1.
Text(chars, matches) == [chars |-> chars, matches |-> matches]
Match(at, raw) == [at |-> at, raw |-> raw]

\* the shortest string ISBN_REGEX matches: four digit groups and a check
MinMatchLen == 5

\* text[:max_chars]: a match that the cut crosses keeps its first characters
TruncateText(text, max_chars) ==
    IF text.chars <= max_chars THEN text
    ELSE LET cut(m) == IF m.at + Len(m.raw) <= max_chars THEN m
                       ELSE Match(m.at, SubSeq(m.raw, 1, max_chars - m.at))
             all == [i \in 1..Len(text.matches) |-> cut(text.matches[i])]
         IN  Text(max_chars,
                  SelectSeq(all, LAMBDA m : m.at < max_chars /\ Len(m.raw) >= MinMatchLen))

\* the strings of a list of character sequences
Strs(list) == [i \in 1..Len(list) |-> Str(list[i])]

\* a variant of _find_isbns_in_text that keeps every normalized match,
\* valid or not
FindIsbnCharsUnchecked(text) ==
    DictFromKeys([i \in 1..Len(text.matches) |->
                     NormalizeIsbn(Strip(text.matches[i].raw))])

\* _find_isbns_in_text(text), each identifier as its characters
FindIsbnChars(text) ==
    LET normalized == [i \in 1..Len(text.matches) |->
                          NormalizeIsbn(Strip(text.matches[i].raw))]
        found_isbns == SelectSeq(normalized, LAMBDA n : IsValidIsbn(n) = Ok(TRUE))
    IN  DictFromKeys(found_isbns)

\* _find_isbns_in_text(text)
FindIsbnsInText(text) == Strs(FindIsbnChars(text))

(***************************************************************************)
(* The files of a batch.  A file is a path and a content; the content      *)
(* fixes the hash and everything the container parser and the extractors   *)
(* return for it.                                                          *)
(***************************************************************************)
IsbnA == "9780306406157"
IsbnB == "0306406152"
IsbnC == "9791090636071"

\* the CoverData extract_cover returns (extract.py lines 57-99)
CoverData(has) ==
    [has_cover |-> has,
     cover_filename |-> IF has = JTrue THEN "cover.jpg" ELSE None,
     cover_media_type |-> IF has = JTrue THEN "image/jpeg" ELSE None,
     width |-> IF has = JTrue THEN "600" ELSE None,
     height |-> IF has = JTrue THEN "800" ELSE None,
     format |-> IF has = JTrue THEN "JPEG" ELSE None,
     error |-> None,
     cover_content |-> IF has = JTrue THEN "<cover bytes>" ELSE None]

\* BaseModel.model_dump(exclude=...)
ModelDump(model, exclude) == [k \in (DOMAIN model) \ exclude |-> model[k]]

\* a variant of line 178 that dumps every field of the CoverData
CoverDumpWithContent(has) == ModelDump(CoverData(has), {})

\* CoverData.model_dump(exclude={"cover_content"})
CoverDump(has) == ModelDump(CoverData(has), {"cover_content"})

(***************************************************************************)
(* OCR of the cover candidates (src/src/tasks/ocr.py).  The bytes of an    *)
(* image are modelled by what the decoder and the engine do with them.     *)
(***************************************************************************)
\* OCRConfig.max_chars
OcrMaxChars == 2000

\* b"": an image without content
NoBytes == [empty |-> TRUE]

\* image bytes: whether PIL opens them, and what reader.readtext does
Picture(opens, reads) == [empty |-> FALSE, opens |-> opens, reads |-> reads]

Image(filename, media_type, bytes) ==
    [filename |-> filename, media_type |-> media_type, bytes |-> bytes]

\* filename.lower().endswith(".svg") or "svg" in media_type.lower()
SvgFilenames  == {"logo.svg", "LOGO.SVG"}
SvgMediaTypes == {"image/svg+xml"}
IsSvgImage(image) ==
    image.filename \in SvgFilenames \/ image.media_type \in SvgMediaTypes

\* the loop of extract_text_from_images (lines 86-135)
RECURSIVE ReadImages(_, _)
ReadImages(images, max_chars) ==
    IF images = <<>> THEN <<>>
    ELSE LET image == images[1]
             rest == ReadImages(Tail(images), max_chars)
         IN  IF image.bytes = NoBytes THEN rest
             ELSE IF IsSvgImage(image) THEN rest
             ELSE IF ~image.bytes.opens THEN rest
             ELSE IF image.bytes.reads.raised THEN rest
             ELSE IF image.bytes.reads.value.chars = 0 THEN rest
             ELSE <<[filename |-> image.filename,
                     text |-> TruncateText(image.bytes.reads.value, max_chars)]>>
                    \o rest

\* extract_text_from_images(images, ...): what it returns or raises, and
\* the engine it leaves; init_ok tells whether easyocr.Reader(...) succeeds
\* when _get_reader has to create the reader (lines 77-84, 23-34)
ExtractTextFromImages(images, max_chars, engine, init_ok) ==
    IF engine = "absent" THEN [ret |-> Ok(<<>>), engine |-> engine]
    ELSE IF engine = "cold" /\ ~init_ok
    THEN [ret |-> Raise("RuntimeError", "<easyocr.Reader failed>"), engine |-> "cold"]
    ELSE [ret |-> Ok(ReadImages(images, max_chars)), engine |-> "ready"]

\* what the engine reads on the covers of the model
ReadsA ==
    Text(40, <<Match(5, <<"0", "3", "0", "6", "4", "0", "6", "1", "5", "2">>),
               Match(20, <<"9", "7", "8", "-", "0", "3", "0", "6", "4", "0", "6", "1", "5", "7">>),
               Match(36, <<"1", "2", "3", "4", "5">>)>>)
ReadsB ==
    Text(2005, <<Match(0, Chars13C), Match(100, Chars13A), Match(200, Chars13C),
                 Match(1995, Chars10X)>>)

NoIsbnData ==
    [isbn |-> None, isbn_source |-> "none", all_isbns |-> <<>>,
     isbn_candidates |-> <<>>, error |-> None]

IsbnDataOf(isbn, source, all) ==
    [isbn |-> isbn, isbn_source |-> source, all_isbns |-> all,
     isbn_candidates |-> all, error |-> None]

\* "urn:isbn:", the prefix extract_isbn removes, and the word it looks for
UrnPrefix == <<"u", "r", "n", ":", "i", "s", "b", "n", ":">>
IsbnWord  == <<"i", "s", "b", "n">>

\* value.replace(old, "")
RECURSIVE Remove(_, _)
Remove(value, old) ==
    IF Len(value) < Len(old) THEN value
    ELSE IF SubSeq(value, 1, Len(old)) = old
    THEN Remove(SubSeq(value, Len(old) + 1, Len(value)), old)
    ELSE <<value[1]>> \o Remove(Tail(value), old)

\* word in value.lower()
InLower(word, value) ==
    LET lower == [i \in 1..Len(value) |-> Lower(value[i])]
    IN  \E i \in 1..(Len(value) - Len(word) + 1) :
            SubSeq(lower, i, i + Len(word) - 1) = word

\* the loop of extract_isbn over the identifier fields (lines 212-219): the
\* identifier it returns, the empty string when it returns none, or the
\* ValueError of _is_valid_isbn
RECURSIVE MetadataIsbn(_)
MetadataIsbn(identifiers) ==
    IF identifiers = <<>> THEN Ok(<<>>)
    ELSE LET identifier == identifiers[1]
             rest == MetadataIsbn(Tail(identifiers))
             looks == IF InLower(IsbnWord, identifier) THEN Ok(TRUE)
                      ELSE IsValidIsbn(identifier)
             clean_isbn == NormalizeIsbn(Strip(Remove(identifier, UrnPrefix)))
             valid == IsValidIsbn(clean_isbn)
         IN  IF identifier = <<>> THEN rest
             ELSE IF looks.raised THEN looks
             ELSE IF ~looks.value THEN rest
             ELSE IF valid.raised THEN valid
             ELSE IF valid.value THEN Ok(clean_isbn)
             ELSE rest

\* the document fragments extract_isbn scans: items[:5]
ItemsToScan == 5

\* the lists of a list, one after the other
RECURSIVE Extend(_)
Extend(lists) == IF lists = <<>> THEN <<>> ELSE lists[1] \o Extend(Tail(lists))

\* next((isbn for isbn in unique_isbns if len(isbn) == 13), None) or
\* unique_isbns[0]
ChosenIsbn(unique_isbns) ==
    IF \E i \in 1..Len(unique_isbns) : Len(unique_isbns[i]) = 13
    THEN unique_isbns[CHOOSE i \in 1..Len(unique_isbns) :
                          /\ Len(unique_isbns[i]) = 13
                          /\ \A j \in 1..(i - 1) : Len(unique_isbns[j]) # 13]
    ELSE unique_isbns[1]

\* what the container parser yields to extract_isbn: the identifier fields
\* in declared order and the text of each document fragment, in order
Book(identifiers, documents) ==
    [identifiers |-> identifiers, documents |-> documents]

\* extract_isbn(book, file_path)
ExtractIsbn(book) ==
    LET meta == MetadataIsbn(book.identifiers)
        items_to_scan ==
            SubSeq(book.documents, 1,
                   IF Len(book.documents) < ItemsToScan
                   THEN Len(book.documents) ELSE ItemsToScan)
        all_found_isbns ==
            Extend([i \in 1..Len(items_to_scan) |-> FindIsbnChars(items_to_scan[i])])
        unique_isbns == DictFromKeys(all_found_isbns)
    IN  IF meta.raised THEN [NoIsbnData EXCEPT !.error = meta.msg]
        ELSE IF meta.value # <<>>
        THEN IsbnDataOf(Str(meta.value), "metadata", <<Str(meta.value)>>)
        ELSE IF all_found_isbns # <<>>
        THEN IsbnDataOf(Str(ChosenIsbn(unique_isbns)), "content", Strs(unique_isbns))
        ELSE NoIsbnData

(***************************************************************************)
(* The cover selector (extract_cover_images, src/src/tasks/extract.py).    *)
(* Names, media types and image references are sequences of characters;    *)
(* an absent one is the empty sequence.  An Optional[int] is the empty     *)
(* sequence for None and a sequence of one number otherwise.               *)
(***************************************************************************)
Nothing == <<>>
Some(n) == <<n>>

\* the bytes of a raster image PIL decodes, with the size it finds
Sized(width, height) ==
    [empty |-> FALSE, opens |-> TRUE, reads |-> Ok(Text(0, <<>>)),
     width |-> width, height |-> height]

\* an embedded image item: file_name, media_type and what get_content()
\* returns or raises
Item(file_name, media_type, content) ==
    [file_name |-> file_name, media_type |-> media_type, content |-> content]

\* a document fragment, as far as the selector goes: the src attribute of
\* each of its img tags, in order
Fragment(srcs) == [srcs |-> srcs]

\* Path(value).name
RECURSIVE BaseName(_)
BaseName(value) ==
    LET slashes == {i \in 1..Len(value) : value[i] = "/"}
    IN  IF value = <<>> THEN <<>>
        ELSE IF LastChar(value) = "/" THEN BaseName(ButLast(value))
        ELSE IF slashes = {} THEN value
        ELSE SubSeq(value, 1 + (CHOOSE i \in slashes : \A j \in slashes : j <= i),
                    Len(value))

\* value.split(sep)[0]
Before(value, sep) ==
    LET at == {i \in 1..Len(value) : value[i] = sep}
    IN  IF at = {} THEN value
        ELSE SubSeq(value, 1, (CHOOSE i \in at : \A j \in at : i <= j) - 1)

\* value.lower().endswith(suffix)
EndsWithLower(value, suffix) ==
    /\ Len(value) >= Len(suffix)
    /\ [i \in 1..Len(suffix) |-> Lower(value[Len(value) - Len(suffix) + i])] = suffix

SvgSuffix == <<".", "s", "v", "g">>
SvgWord   == <<"s", "v", "g">>

\* the fragments scanned for image references: items[:3]
FragmentsToScan == 3

\* float("inf"), the priority of an image no fragment refers to: a number
\* above every index of a scanned fragment
NoHint == FragmentsToScan

\* image_lookup.get(name): the 0-based index of the first scanned fragment
\* with a reference to the name, if there is one (lines 108-119, 149, 159)
Priority(documents, name) ==
    LET refers(doc) ==
            \E k \in 1..Len(doc.srcs) :
                /\ doc.srcs[k] # <<>>
                /\ BaseName(Before(Before(doc.srcs[k], "#"), "?")) = name
        orders == {o \in 1..Len(documents) :
                      o <= FragmentsToScan /\ refers(documents[o])}
    IN  IF orders = {} THEN NoHint
        ELSE (CHOOSE o \in orders : \A q \in orders : o <= q) - 1

\* the smallest side of a candidate whose size is known
MinSide == 300

\* a variant of the size test that drops an image only when both of its
\* sides are below the threshold
TooSmallWhenBoth(width, height) ==
    /\ width # Nothing /\ height # Nothing
    /\ width[1] # 0 /\ height[1] # 0
    /\ width[1] < MinSide /\ height[1] < MinSide

\* width and height and (width < 300 or height < 300)
TooSmall(width, height) ==
    /\ width # Nothing /\ height # Nothing
    /\ width[1] # 0 /\ height[1] # 0
    /\ (width[1] < MinSide \/ height[1] < MinSide)

\* a variant of the filter that does not look at the file name
IsVectorByTypeOnly(item) == InLower(SvgWord, item.media_type)

\* lines 132-135: the item is left out as a vector image
IsVector(item) ==
    \/ InLower(SvgWord, item.media_type)
    \/ EndsWithLower(BaseName(item.file_name), SvgSuffix)

\* the string, or None for the absent one
StrOrNone(chars) == IF chars = <<>> THEN None ELSE Str(chars)

\* the body of the loop over the image items (lines 122-160): the pairs
\* of a priority and a payload, in the order of the items
RECURSIVE OrderedImages(_, _)
OrderedImages(items, documents) ==
    IF items = <<>> THEN <<>>
    ELSE LET item == items[1]
             rest == OrderedImages(Tail(items), documents)
             image_bytes == item.content.value
             decoded == image_bytes.opens
             width == IF decoded THEN Some(image_bytes.width) ELSE Nothing
             height == IF decoded THEN Some(image_bytes.height) ELSE Nothing
             payload == [filename |-> Str(item.file_name),
                         media_type |-> StrOrNone(item.media_type),
                         width |-> width, height |-> height,
                         format |-> IF decoded THEN "PNG" ELSE None,
                         bytes |-> image_bytes]
         IN  IF item.content.raised THEN rest
             ELSE IF IsVector(item) THEN rest
             ELSE IF TooSmall(width, height) THEN rest
             ELSE <<[priority |-> Priority(documents, BaseName(item.file_name)),
                     payload |-> payload]>> \o rest

\* the sort key of line 162: (priority, -(width or 0))
KeyLess(a, b) ==
    LET neg(p) == IF p.payload.width = Nothing THEN 0 ELSE 0 - p.payload.width[1]
    IN  \/ a.priority < b.priority
        \/ a.priority = b.priority /\ neg(a) < neg(b)

\* a variant of the sort that looks at the priority alone
RECURSIVE SortByPriority(_)
SortByPriority(pairs) ==
    IF pairs = <<>> THEN <<>>
    ELSE LET front == SortByPriority(ButLast(pairs))
             x == LastChar(pairs)
             n == Cardinality({i \in 1..Len(front) : front[i].priority <= x.priority})
         IN  SubSeq(front, 1, n) \o <<x>> \o SubSeq(front, n + 1, Len(front))

\* list.sort(key=...): stable, so that equal keys keep the order of the items
RECURSIVE SortPairs(_)
SortPairs(pairs) ==
    IF pairs = <<>> THEN <<>>
    ELSE LET front == SortPairs(ButLast(pairs))
             x == LastChar(pairs)
             n == Cardinality({i \in 1..Len(front) : ~KeyLess(x, front[i])})
         IN  SubSeq(front, 1, n) \o <<x>> \o SubSeq(front, n + 1, Len(front))

\* extract_cover_images(book, file_path): the candidates and the primary one
ExtractCoverImages(book) ==
    LET sorted == SortPairs(OrderedImages(book.items, book.documents))
        images_payload == [i \in 1..Len(sorted) |-> sorted[i].payload]
        primary == Put(images_payload[1], "primary", TRUE)
    IN  IF images_payload = <<>> THEN [images |-> <<>>, primary |-> NoneObj]
        ELSE [images |-> <<primary>> \o Tail(images_payload), primary |-> primary]

\* what the extractors return for each content; `ocr` is what the engine
\* makes of the images when it is there
ContentA ==
    [id |-> "A", readable |-> TRUE, meta |-> [title |-> "t-a", creator |-> "c-a"],
     isbn_data |-> ExtractIsbn(Book(<<UrnPrefix \o Chars13A>>, <<>>)),
     text |-> "text of a", has_cover |-> JTrue,
     images |-> <<Image("cover.jpg", "image/jpeg", Picture(TRUE, Ok(ReadsA))),
                  Image("back.jpg", "image/jpeg",
                        Picture(TRUE, Raise("RuntimeError", "<readtext failed>")))>>,
     ocr |-> <<[filename |-> "cover.jpg", text |-> ReadsA]>>]
ContentB ==
    [id |-> "B", readable |-> TRUE, meta |-> [title |-> "t-b", creator |-> "c-b"],
     isbn_data |-> ExtractIsbn(Book(<<>>, <<Text(60, <<Match(3, Chars10B),
                                                        Match(30, Hyphened13A)>>)>>)),
     text |-> "text of b", has_cover |-> JFalse,
     images |-> <<Image("scan.png", "image/png", Picture(TRUE, Ok(ReadsB)))>>,
     ocr |-> <<[filename |-> "scan.png",
                text |-> Text(OcrMaxChars,
                              <<Match(0, Chars13C), Match(100, Chars13A),
                                Match(200, Chars13C),
                                Match(1995, <<"0", "8", "0", "4", "4">>)>>)]>>]
ContentC ==
    [id |-> "C", readable |-> TRUE, meta |-> [title |-> "t-c", creator |-> "c-c"],
     isbn_data |-> ExtractIsbn(Book(<<>>, <<Text(0, <<>>)>>)),
     text |-> "", has_cover |-> JTrue,
     images |-> <<Image("c.png", "image/png",
                        Picture(FALSE, Raise("OSError", "<cannot identify image>")))>>,
     ocr |-> <<>>]
ContentD ==
    [id |-> "D", readable |-> FALSE, meta |-> [title |-> "", creator |-> ""],
     isbn_data |-> NoIsbnData,
     text |-> "", has_cover |-> JFalse, images |-> <<>>, ocr |-> <<>>]

File(p, c) == [path |-> p, content |-> c]

Files ==
    {File("in/a.epub", ContentA), File("in/copy/a.epub", ContentA),
     File("in/b.epub", ContentB), File("in/c.epub", ContentC),
     File("in/d.epub", ContentD)}

\* get_file_hash(file_path): the SHA-256 hex digest of the bytes
GetFileHash(file) == "sha256:" \o file.content.id

(***************************************************************************)
(* run_pipeline (src/src/core/pipeline.py).                                *)
(***************************************************************************)
VARIABLES
    db,       \* the books table: a sequence of rows
    pc,       \* where run_pipeline stands
    state,    \* the PipelineState of the run in progress
    writes,   \* the writes the persistence layer received from this run
    calls,    \* the enrichment requests this run sent
    reply,    \* what the transport did with the last request of this run
    faults,   \* the steps of this run at which a collaborator raised
    result,   \* what run_pipeline handed back to the caller
    results,  \* main_process: one entry for each run that ended
    transport,  \* contract layer alone: what the transport did with a request
    response,   \* contract layer alone: what the workflow client returned
    ocr_engine, \* ocr.py: "absent" (OCR_AVAILABLE is false), "cold" (no
                \* reader in _reader_cache yet) or "ready" (reader cached)
    arg,        \* a pure function alone: the arguments of the call
    ret,        \* a pure function alone: what the call returned
    use_redis_state,  \* main_process: the --use-redis option
    redis_client,     \* RedisStateManager.redis_client: None or "connected"
    processed_files,  \* the members of book_processor:processed_files
    runs              \* concurrent executions alone: for each execution of
                      \* run_pipeline, where it stands and what it holds

\* the resumable-state cache and its use
cache == <<use_redis_state, redis_client, processed_files>>

vars == <<db, pc, state, writes, calls, reply, faults, result, results,
          transport, response, ocr_engine, arg, ret, cache, runs>>

NoReply  == [tk |-> "none"]
NoArg    == [fn |-> "none"]
NoResult == Ok(EmptyDict)

\* PipelineState.__init__(file_path, settings)
PipelineState(file) ==
    [file_path |-> file, book_id |-> NoId, data |-> EmptyDict,
     final_status |-> "pending", error_message |-> None,
     cover_images |-> <<>>, primary_cover |-> NoneObj,
     n8n_response |-> NoneObj]

NoState == PipelineState(File("", ContentD))

\* a variant of the except clause that drops the exception's description
OnExceptionNoMessage(st, exc) == [st EXCEPT !.final_status = "failed"]

\* the except clause of run_pipeline (lines 254-257)
OnException(st, exc) ==
    [st EXCEPT !.final_status = "failed", !.error_message = exc.msg]

\* what a collaborator raises at a step of run_pipeline
FaultAt(step) == Raise("Exception", "<fault at " \o step \o ">")

\* the steps of the try block that call a collaborator able to raise
TrySteps == {"hash", "find_hash", "create", "find_isbn"}

\* lines 144-147
WithMetadata(data, content) ==
    LET dump == [metadata |-> content.meta, error |-> None]
    IN  Put(Put(data, "json_extract_metadata", dump), "epub_metadata", dump)

\* lines 149-154
WithIsbn(data, content) ==
    LET d == Put(data, "json_extract_isbn", content.isbn_data)
    IN  IF Truthy(content.isbn_data.isbn)
        THEN Put(Put(Put(d, "isbn", content.isbn_data.isbn),
                     "isbn_source", content.isbn_data.isbn_source),
                 "isbn_candidates", content.isbn_data.isbn_candidates)
        ELSE d

\* lines 156-160
WithText(data, content) ==
    Put(Put(data, "json_extract_text",
            [text_preview |-> content.text, error |-> None]),
        "text_preview", content.text)

\* line 164
WithOcr(data, ocr_results) == Put(data, "image_ocr", ocr_results)

\* lines 177-178
WithCover(data, content) ==
    Put(Put(data, "has_cover", content.has_cover),
        "json_extract_cover", CoverDump(content.has_cover))

\* extract_cover_images: the candidates and the primary one (line 163)
PrimaryOf(images) == IF images = <<>> THEN NoneObj ELSE images[1]

\* _extract_local_data(state): the state it leaves, the exception it
\* raises, if any, and the OCR engine it leaves; `fault` tells whether
\* extract_cover_images raises, `engine` and `init_ok` what the OCR engine
\* is and does
ExtractLocalData(st, fault, engine, init_ok) ==
    LET content == st.file_path.content
        d3 == WithText(WithIsbn(WithMetadata(st.data, content), content), content)
        read == ExtractTextFromImages(content.images, OcrMaxChars, engine, init_ok)
        found == [st EXCEPT !.cover_images = content.images,
                            !.primary_cover = PrimaryOf(content.images)]
    IN  IF ~content.readable
        THEN [state |-> st, exc |-> Raise("EpubException", "Bad Zip file"),
              engine |-> engine]
        ELSE IF fault = "cover_images"
        THEN [state |-> [st EXCEPT !.data = d3], exc |-> FaultAt("cover_images"),
              engine |-> engine]
        ELSE IF read.ret.raised
        THEN [state |-> [found EXCEPT !.data = d3], exc |-> read.ret,
              engine |-> read.engine]
        ELSE [state |-> [found EXCEPT
                            !.data = WithCover(WithOcr(d3, read.ret.value), content)],
              exc |-> Ok(None), engine |-> read.engine]

\* _dedupe(values): the truthy values, each once (line 90)
Dedupe(values) == DictFromKeys(SelectSeq(values, LAMBDA v : v # ""))

\* _collect_ocr_isbns() (lines 92-100)
RECURSIVE FoundInEntries(_)
FoundInEntries(ocr_results) ==
    IF ocr_results = <<>> THEN <<>>
    ELSE (IF ocr_results[1].text.chars = 0 THEN <<>>
          ELSE FindIsbnsInText(ocr_results[1].text))
            \o FoundInEntries(Tail(ocr_results))

CollectOcrIsbns(data) ==
    Dedupe(FoundInEntries(IF Has(data, "image_ocr") THEN data["image_ocr"] ELSE <<>>))

\* the values of a list that are not in `seen` (lines 118-122)
Unseen(values, seen) == SelectSeq(values, LAMBDA v : v \notin seen)

\* the set of the values of a list
Values(list) == {list[i] : i \in 1..Len(list)}

\* lines 105-109: the identifiers taken from the identifier data
MetadataIsbns(isbn_data) ==
    IF isbn_data.isbn_source = "metadata" /\ Truthy(isbn_data.isbn)
    THEN <<isbn_data.isbn>> ELSE <<>>

TextIsbns(isbn_data) ==
    IF isbn_data.isbn_source = "metadata" /\ Truthy(isbn_data.isbn) THEN <<>>
    ELSE IF isbn_data.isbn_source = "content" THEN isbn_data.all_isbns
    ELSE <<>>

\* a variant of _build_isbn_payload without the `seen` set
BuildIsbnPayloadNoSeen(data) ==
    LET isbn_data == IF Has(data, "json_extract_isbn")
                     THEN data["json_extract_isbn"] ELSE NoIsbnData
    IN  [metadata |-> Dedupe(MetadataIsbns(isbn_data)),
         text |-> Dedupe(TextIsbns(isbn_data)),
         ocr |-> Dedupe(CollectOcrIsbns(data))]

\* _build_isbn_payload() (lines 102-123)
BuildIsbnPayload(data) ==
    LET isbn_data == IF Has(data, "json_extract_isbn")
                     THEN data["json_extract_isbn"] ELSE NoIsbnData
        metadata == Unseen(Dedupe(MetadataIsbns(isbn_data)), {})
        text == Unseen(Dedupe(TextIsbns(isbn_data)), Values(metadata))
        ocr == Unseen(Dedupe(CollectOcrIsbns(data)),
                      Values(metadata) \cup Values(text))
    IN  [metadata |-> metadata, text |-> text, ocr |-> ocr]

\* _build_n8n_payload(state, dry_run, test_mode)
BuildN8nPayload(st) ==
    [filename |-> st.file_path.path,
     metadata |-> st.data["json_extract_metadata"].metadata,
     isbn |-> BuildIsbnPayload(st.data),
     ocr |-> st.data["image_ocr"],
     text_preview |-> st.data["json_extract_text"].text_preview]

\* a variant of lines 241-249 that takes the title for the author and the
\* author for the title
AfterResponseSwapped(st, parsed) ==
    IF parsed.success /\ parsed.payload # NoneObj
    THEN [st EXCEPT
            !.data = Put(Put(Put(@, "final_title", parsed.payload.author),
                             "final_author", parsed.payload.title),
                         "choice_source",
                         IF parsed.source # "" THEN parsed.source ELSE "sortebook_v5"),
            !.final_status = "processed"]
    ELSE [st EXCEPT
            !.error_message =
                IF JoinErrors(parsed.errors) # "" THEN JoinErrors(parsed.errors)
                ELSE "SortBook workflow n8n a retourne une erreur",
            !.final_status = "failed"]

\* lines 241-249: the state after a parsed response
AfterResponse(st, parsed) ==
    IF parsed.success /\ parsed.payload # NoneObj
    THEN [st EXCEPT
            !.data = Put(Put(Put(@, "final_title", parsed.payload.title),
                             "final_author", parsed.payload.author),
                         "choice_source",
                         IF parsed.source # "" THEN parsed.source ELSE "sortebook_v5"),
            !.final_status = "processed"]
    ELSE [st EXCEPT
            !.error_message =
                IF JoinErrors(parsed.errors) # "" THEN JoinErrors(parsed.errors)
                ELSE "SortBook workflow n8n a retourne une erreur",
            !.final_status = "failed"]

\* lines 233-249: the state after the enrichment step, given the transport
EnrichmentStep(st, t) ==
    LET r == CallN8nSortebookWorkflow(t)
    IN  IF r.raised THEN OnException(st, r)
        ELSE LET parsed == ModelValidate(r.value.normalized)
             IN  IF parsed.raised THEN OnException(st, parsed)
                 ELSE AfterResponse(
                        [st EXCEPT
                           !.n8n_response = parsed.value,
                           !.data = Put(Put(@, "json_n8n_response",
                                            IF r.value.raw_result = ReplyNull
                                            THEN NoneObj ELSE r.value.raw_result),
                                        "json_n8n_response_parsed", parsed.value)],
                        parsed.value)

\* lines 260-264: the outcome the finally clause completes
FinalData(st) ==
    Put(Put(Put(Put(st.data, "status", st.final_status),
                "error_message", st.error_message),
            "processing_completed_at", "<end_time>"),
        "processing_time_ms", "<elapsed ms>")

(***************************************************************************)
(* What the enrichment transport may do with a request of the pipeline.    *)
(***************************************************************************)
GoodReply        == ReplyObj(JTrue, ExpectedSource, PayloadObj("T", "A"), ErrorsAbsent)
OtherSourceReply == ReplyObj(JTrue, "svc", PayloadObj("T", "A"), ErrorsAbsent)
NoAuthorReply    == ReplyObj(JTrue, ExpectedSource, PayloadObj("T", Absent), ErrorsAbsent)
BadTitleReply    == ReplyObj(JTrue, ExpectedSource, PayloadObj(JOther, "A"), ErrorsList(<<>>))
FailureReply     == ReplyObj(JFalse, ExpectedSource, PayloadAbsent, ErrorsList(<<"e1", "e2">>))
SilentFailure    == ReplyObj(JFalse, ExpectedSource, PayloadNull, ErrorsAbsent)

PipelineReplies ==
    {GoodReply, OtherSourceReply, NoAuthorReply, BadTitleReply, FailureReply,
     SilentFailure, ReplyOther}

PipelineTransports ==
    {[tk |-> "reply", body |-> r] : r \in PipelineReplies} \cup TransportFailures

(***************************************************************************)
(* The steps of run_pipeline and of the batch driver.                      *)
(***************************************************************************)
(***************************************************************************)
(* The resumable-state cache (RedisStateManager, src/src/core/state.py).   *)
(* A Redis command either answers or raises a redis.RedisError.            *)
(***************************************************************************)
\* connect(): the redis_client it leaves; `configured` tells whether
\* settings.redis_host is set, `ping_ok` whether the server answers
Connect(configured, ping_ok) ==
    IF ~configured THEN None
    ELSE IF ping_ok THEN "connected"
    ELSE None

\* str(file_path) of each file of a list
Paths(files) == {files[i].path : i \in 1..Len(files)}

\* a variant of filter_processed_files that hands back no file when the
\* SMEMBERS command fails
FilterFailClosed(client, members, all_files, is_list, smembers_ok) ==
    IF client = None THEN Ok(all_files)
    ELSE IF ~smembers_ok THEN Ok(<<>>)
    ELSE IF members = {} THEN Ok(all_files)
    ELSE IF ~is_list
    THEN Raise("TypeError", "object of type 'generator' has no len()")
    ELSE Ok(SelectSeq(all_files, LAMBDA file : file.path \notin members))

\* filter_processed_files(all_files): `is_list` tells whether the caller
\* passes a list or, as main_process does, the generator of
\* _iter_epub_files, of which line 65 takes len()
FilterProcessedFiles(client, members, all_files, is_list, smembers_ok) ==
    IF client = None THEN Ok(all_files)
    ELSE IF ~smembers_ok THEN Ok(all_files)
    ELSE IF members = {} THEN Ok(all_files)
    ELSE IF ~is_list
    THEN Raise("TypeError", "object of type 'generator' has no len()")
    ELSE Ok(SelectSeq(all_files, LAMBDA file : file.path \notin members))

\* add_processed_file(file_path): the members it leaves; it returns None
\* in every case
AddProcessedFile(client, members, file, sadd_ok) ==
    IF client = None THEN members
    ELSE IF sadd_ok THEN members \cup {file.path}
    ELSE members

\* a variant of the statuses below that leaves out the failed runs
MarkedWithoutFailed == {"processed", "duplicate_isbn"}

\* the statuses after which main_process marks the file (main.py line 282)
MarkedStatuses == {"processed", "failed", "duplicate_isbn"}

\* main.py lines 261-283: the members of the cache after main_process
\* looked at one result
MarkResult(use_redis, client, members, file, outcome, sadd_ok) ==
    IF outcome.raised THEN members
    ELSE IF use_redis /\ Get(outcome.value, "status") \in MarkedStatuses
    THEN AddProcessedFile(client, members, file, sadd_ok)
    ELSE members

\* main.py lines 280-283 with state.py lines 74-77: whether main_process
\* sends a SADD command for this result
SaddSent(use_redis, client, outcome) ==
    /\ ~outcome.raised
    /\ use_redis
    /\ Get(outcome.value, "status") \in MarkedStatuses
    /\ client # None

\* the batch before its first file, the cache apart
InitBatch ==
    /\ db = <<>>
    /\ pc = "idle"
    /\ state = NoState
    /\ writes = <<>>
    /\ calls = <<>>
    /\ reply = NoReply
    /\ faults = {}
    /\ result = NoResult
    /\ results = <<>>
    /\ transport = NoReply
    /\ response = Ok(NoneObj)
    /\ ocr_engine \in {"absent", "cold"}
    /\ arg = NoArg
    /\ ret = Ok(NoneObj)

\* a batch without --use-redis: the manager is constructed, connect() is
\* not called (main.py lines 192-196, state.py lines 19-22)
Init ==
    /\ InitBatch
    /\ use_redis_state = FALSE
    /\ redis_client = None
    /\ processed_files = {}
    /\ runs = <<>>

\* main_process calls run_pipeline on a file (main.py lines 234-244)
StartRun ==
    /\ pc = "idle"
    /\ Len(results) < MaxRuns
    /\ \E f \in Files : state' = PipelineState(f)
    /\ pc' = "hash"
    /\ writes' = <<>>
    /\ calls' = <<>>
    /\ reply' = NoReply
    /\ faults' = {}
    /\ result' = NoResult
    /\ UNCHANGED <<runs, cache, db, results, transport, response,
                 ocr_engine, arg, ret>>

\* a variant of line 209 that is followed by the insert, without the hash
\* lookup
HashFileSkipsLookup ==
    /\ pc = "hash"
    /\ state' = [state EXCEPT !.data = Put(@, "file_hash", GetFileHash(state.file_path))]
    /\ pc' = "create"
    /\ UNCHANGED <<runs, cache, db, writes, calls, reply, faults, result, results, transport, response,
                 ocr_engine, arg, ret>>

\* line 209
HashFile ==
    /\ pc = "hash"
    /\ state' = [state EXCEPT !.data = Put(@, "file_hash", GetFileHash(state.file_path))]
    /\ pc' = "find_hash"
    /\ UNCHANGED <<runs, cache, db, writes, calls, reply, faults, result, results, transport, response,
                 ocr_engine, arg, ret>>

\* a variant of lines 211-215 that adopts the id of the row it found, so
\* that the finally clause updates that row
LookupHashAdoptsRow ==
    /\ pc = "find_hash"
    /\ IF FindBookByHash(db, state.data["file_hash"])
       THEN /\ state' = [state EXCEPT
                            !.final_status = "duplicate_hash",
                            !.book_id = CHOOSE i \in RowsByHash(db, state.data["file_hash"]) : TRUE,
                            !.data = Put(@, "status", "duplicate_hash")]
            /\ pc' = "finally"
       ELSE /\ state' = state
            /\ pc' = "create"
    /\ UNCHANGED <<runs, cache, db, writes, calls, reply, faults, result, results, transport, response,
                 ocr_engine, arg, ret>>

\* lines 211-215
LookupHash ==
    /\ pc = "find_hash"
    /\ IF FindBookByHash(db, state.data["file_hash"])
       THEN /\ state' = [state EXCEPT !.final_status = "duplicate_hash",
                                      !.data = Put(@, "status", "duplicate_hash")]
            /\ pc' = "finally"
       ELSE /\ state' = state
            /\ pc' = "create"
    /\ UNCHANGED <<runs, cache, db, writes, calls, reply, faults, result, results, transport, response,
                 ocr_engine, arg, ret>>

\* lines 217-223
CreateEntry ==
    /\ pc = "create"
    /\ db' = Append(db, PendingRow(state.data["file_hash"], state.file_path))
    /\ state' = [state EXCEPT !.book_id = Len(db) + 1]
    /\ writes' = Append(writes, [op |-> "insert", id |-> Len(db) + 1, status |-> "pending"])
    /\ pc' = "extract"
    /\ UNCHANGED <<runs, cache, calls, reply, faults, result, results, transport, response,
                 ocr_engine, arg, ret>>

\* a collaborator raises inside the try block: hashing, a lookup, the
\* insert (lines 209-228), caught at lines 254-257
StepFails ==
    /\ pc \in TrySteps
    /\ pc = "find_isbn" => Truthy(Get(state.data, "isbn"))
    /\ state' = OnException(state, FaultAt(pc))
    /\ faults' = faults \cup {pc}
    /\ pc' = "finally"
    /\ UNCHANGED <<runs, cache, db, writes, calls, reply, result, results, transport, response,
                 ocr_engine, arg, ret>>

\* line 225
Extract ==
    /\ pc = "extract"
    /\ \E fault \in {"none", "cover_images"}, init_ok \in BOOLEAN :
        LET r == ExtractLocalData(state, fault, ocr_engine, init_ok)
        IN  /\ ocr_engine' = r.engine
            /\ IF r.exc.raised
               THEN /\ state' = OnException(r.state, r.exc)
                    /\ faults' = faults \cup {"extract"}
                    /\ pc' = "finally"
               ELSE /\ state' = r.state
                    /\ faults' = faults
                    /\ pc' = "find_isbn"
    /\ UNCHANGED <<runs, cache, db, writes, calls, reply, result, results, transport, response,
                   arg, ret>>

\* a variant of lines 227-233 and 250-252 that starts the outcome afresh
\* when it finds the identifier
LookupIsbnDropsBundle ==
    /\ pc = "find_isbn"
    /\ IF Truthy(Get(state.data, "isbn")) /\ FindBookByIsbn(db, state.data["isbn"])
       THEN /\ state' = [state EXCEPT
                            !.final_status = "duplicate_isbn",
                            !.error_message = "ISBN deja traite",
                            !.data = [file_hash |-> state.data["file_hash"],
                                      json_n8n_response |-> NoneObj,
                                      json_n8n_response_parsed |-> NoneObj]]
            /\ pc' = "finally"
       ELSE /\ state' = state
            /\ pc' = "n8n"
    /\ UNCHANGED <<runs, cache, db, writes, calls, reply, faults, result, results, transport, response,
                 ocr_engine, arg, ret>>

\* a variant of lines 227-233 without the test of line 233 that the status
\* is still pending: the enrichment step follows an identifier duplicate
LookupIsbnStillCalls ==
    /\ pc = "find_isbn"
    /\ IF Truthy(Get(state.data, "isbn")) /\ FindBookByIsbn(db, state.data["isbn"])
       THEN /\ state' = [state EXCEPT
                            !.final_status = "duplicate_isbn",
                            !.error_message = "ISBN deja traite"]
            /\ pc' = "n8n"
       ELSE /\ state' = state
            /\ pc' = "n8n"
    /\ UNCHANGED <<runs, cache, db, writes, calls, reply, faults, result, results, transport, response,
                 ocr_engine, arg, ret>>

\* lines 227-233 and 250-252
LookupIsbn ==
    /\ pc = "find_isbn"
    /\ IF Truthy(Get(state.data, "isbn")) /\ FindBookByIsbn(db, state.data["isbn"])
       THEN /\ state' = [state EXCEPT
                            !.final_status = "duplicate_isbn",
                            !.error_message = "ISBN deja traite",
                            !.data = Put(Put(@, "json_n8n_response", NoneObj),
                                         "json_n8n_response_parsed", NoneObj)]
            /\ pc' = "finally"
       ELSE /\ state' = state
            /\ pc' = "n8n"
    /\ UNCHANGED <<runs, cache, db, writes, calls, reply, faults, result, results, transport, response,
                 ocr_engine, arg, ret>>

\* lines 233-249
CallWorkflow ==
    /\ pc = "n8n"
    /\ \E t \in PipelineTransports :
        /\ state' = EnrichmentStep(state, t)
        /\ reply' = t
        /\ faults' = IF t.tk = "unexpected" THEN faults \cup {"n8n"} ELSE faults
    /\ calls' = Append(calls, BuildN8nPayload(state))
    /\ pc' = "finally"
    /\ UNCHANGED <<runs, cache, db, writes, result, results, transport, response,
                 ocr_engine, arg, ret>>

\* a variant of the finally clause that persists nothing for a failed run
FinalizeSkipsFailed ==
    /\ pc = "finally"
    /\ state' = [state EXCEPT !.data = FinalData(state)]
    /\ IF state.book_id # NoId /\ state.final_status # "failed"
       THEN /\ db' = UpdateBookEntry(db, state.book_id, FinalData(state))
            /\ writes' = Append(writes, [op |-> "update", id |-> state.book_id,
                                         status |-> FinalData(state)["status"]])
       ELSE UNCHANGED <<db, writes>>
    /\ result' = Ok(FinalData(state))
    /\ pc' = "returned"
    /\ UNCHANGED <<runs, cache, calls, reply, faults, results, transport, response,
                 ocr_engine, arg, ret>>

\* lines 259-269: the finally clause, then the return of the outcome
Finalize ==
    /\ pc = "finally"
    /\ state' = [state EXCEPT !.data = FinalData(state)]
    /\ IF state.book_id # NoId
       THEN /\ db' = UpdateBookEntry(db, state.book_id, FinalData(state))
            /\ writes' = Append(writes, [op |-> "update", id |-> state.book_id,
                                         status |-> FinalData(state)["status"]])
       ELSE UNCHANGED <<db, writes>>
    /\ result' = Ok(FinalData(state))
    /\ pc' = "returned"
    /\ UNCHANGED <<runs, cache, calls, reply, faults, results, transport, response,
                 ocr_engine, arg, ret>>

\* lines 259-267: update_book_entry raises inside the finally clause, and
\* the exception leaves run_pipeline
FinalizeFails ==
    /\ pc = "finally"
    /\ state.book_id # NoId
    /\ state' = [state EXCEPT !.data = FinalData(state)]
    /\ writes' = Append(writes, [op |-> "update", id |-> state.book_id,
                                 status |-> FinalData(state)["status"]])
    /\ faults' = faults \cup {"update"}
    /\ result' = FaultAt("update")
    /\ pc' = "returned"
    /\ UNCHANGED <<runs, cache, db, calls, reply, results, transport, response,
                 ocr_engine, arg, ret>>

\* main_process keeps the outcome, or the exception (main.py lines 245-247),
\* and marks the file in the cache (lines 280-283); sadd_ok tells whether
\* the SADD command answers, when there is a client to send it
CollectResult ==
    /\ pc = "returned"
    /\ \E sadd_ok \in (IF SaddSent(use_redis_state, redis_client, result)
                       THEN BOOLEAN ELSE {TRUE}) :
        /\ results' = Append(results,
                             [file |-> state.file_path, outcome |-> result,
                              faults |-> faults, ncalls |-> Len(calls),
                              writes |-> writes, sadd_ok |-> sadd_ok])
        /\ processed_files' = MarkResult(use_redis_state, redis_client, processed_files,
                                         state.file_path, result, sadd_ok)
    /\ pc' = "idle"
    /\ UNCHANGED <<runs, use_redis_state, redis_client, db, state, writes, calls, reply, faults, result, transport, response,
                 ocr_engine, arg, ret>>

Next ==
    \/ StartRun
    \/ HashFile
    \/ LookupHash
    \/ CreateEntry
    \/ StepFails
    \/ Extract
    \/ LookupIsbn
    \/ CallWorkflow
    \/ Finalize
    \/ FinalizeFails
    \/ CollectResult

Spec == Init /\ [][Next]_vars

\* a batch with --use-redis, after connect() (main.py lines 195-196): the
\* client is there or not, and the cache is empty
InitResume ==
    /\ InitBatch
    /\ use_redis_state = TRUE
    /\ redis_client \in {None, "connected"}
    /\ processed_files = {}
    /\ runs = <<>>

SpecResume == InitResume /\ [][Next]_vars

(***************************************************************************)
(* Two executions of run_pipeline at once, each on a file of its own with  *)
(* the same content, against one table.  An execution gives way at each    *)
(* await; a call of the persistence layer is one step.                     *)
(***************************************************************************)
Procs == {1, 2}

\* the file of each execution
FileOf(p, content) ==
    File(IF p = 1 THEN "in/a.epub" ELSE "in/copy/a.epub", content)

\* run_pipeline(file_path, ...) at line 206
Run(file) ==
    [pc |-> "hash", state |-> PipelineState(file), writes |-> <<>>,
     calls |-> <<>>, result |-> NoResult]

InitConcurrent ==
    /\ InitBatch
    /\ use_redis_state = FALSE
    /\ redis_client = None
    /\ processed_files = {}
    /\ \E content \in {ContentA, ContentB, ContentD} :
          runs = [p \in Procs |-> Run(FileOf(p, content))]

\* the INSERT of create_book_entry under the unique constraint on
\* file_hash that the persistence layer holds: the table it leaves, or the
\* error it raises
InsertBook(table, row) ==
    IF RowsByHash(table, row["file_hash"]) # {}
    THEN Raise("UniqueViolationError",
               "duplicate key value violates unique constraint")
    ELSE Ok(Append(table, row))

\* line 209
RunHash(p) ==
    /\ runs[p].pc = "hash"
    /\ runs' = [runs EXCEPT
                   ![p].state.data = Put(@, "file_hash", GetFileHash(runs[p].state.file_path)),
                   ![p].pc = "find_hash"]
    /\ UNCHANGED <<db, pc, state, writes, calls, reply, faults, result, results,
                   transport, response, ocr_engine, arg, ret, cache>>

\* lines 211-215
RunLookupHash(p) ==
    /\ runs[p].pc = "find_hash"
    /\ runs' = IF FindBookByHash(db, runs[p].state.data["file_hash"])
               THEN [runs EXCEPT ![p].state.final_status = "duplicate_hash",
                                 ![p].state.data = Put(@, "status", "duplicate_hash"),
                                 ![p].pc = "finally"]
               ELSE [runs EXCEPT ![p].pc = "create"]
    /\ UNCHANGED <<db, pc, state, writes, calls, reply, faults, result, results,
                   transport, response, ocr_engine, arg, ret, cache>>

\* a variant of lines 217-223 and 254-257 in which an execution whose
\* insert is refused takes the id of the record that is there
RunCreateAdoptsRecord(p) ==
    /\ runs[p].pc = "create"
    /\ LET st == runs[p].state
           r == InsertBook(db, PendingRow(st.data["file_hash"], st.file_path))
       IN  IF r.raised
           THEN /\ runs' = [runs EXCEPT
                               ![p].state = [OnException(st, r) EXCEPT
                                                !.book_id = CHOOSE i \in RowsByHash(db, st.data["file_hash"]) : TRUE],
                               ![p].pc = "finally"]
                /\ db' = db
           ELSE /\ runs' = [runs EXCEPT
                               ![p].state.book_id = Len(db) + 1,
                               ![p].writes = Append(@, [op |-> "insert", id |-> Len(db) + 1,
                                                        status |-> "pending"]),
                               ![p].pc = "extract"]
                /\ db' = r.value
    /\ UNCHANGED <<pc, state, writes, calls, reply, faults, result, results,
                   transport, response, ocr_engine, arg, ret, cache>>

\* lines 217-223, and 254-257 when the insert is refused
RunCreate(p) ==
    /\ runs[p].pc = "create"
    /\ LET st == runs[p].state
           r == InsertBook(db, PendingRow(st.data["file_hash"], st.file_path))
       IN  IF r.raised
           THEN /\ runs' = [runs EXCEPT ![p].state = OnException(st, r),
                                        ![p].pc = "finally"]
                /\ db' = db
           ELSE /\ runs' = [runs EXCEPT
                               ![p].state.book_id = Len(db) + 1,
                               ![p].writes = Append(@, [op |-> "insert", id |-> Len(db) + 1,
                                                        status |-> "pending"]),
                               ![p].pc = "extract"]
                /\ db' = r.value
    /\ UNCHANGED <<pc, state, writes, calls, reply, faults, result, results,
                   transport, response, ocr_engine, arg, ret, cache>>

\* a collaborator raises inside the try block (lines 209-231, 254-257)
RunStepFails(p) ==
    /\ runs[p].pc \in TrySteps
    /\ runs[p].pc = "find_isbn" => Truthy(Get(runs[p].state.data, "isbn"))
    /\ runs' = [runs EXCEPT ![p].state = OnException(@, FaultAt(runs[p].pc)),
                            ![p].pc = "finally"]
    /\ UNCHANGED <<db, pc, state, writes, calls, reply, faults, result, results,
                   transport, response, ocr_engine, arg, ret, cache>>

\* line 225
RunExtract(p) ==
    /\ runs[p].pc = "extract"
    /\ \E fault \in {"none", "cover_images"}, init_ok \in BOOLEAN :
        LET r == ExtractLocalData(runs[p].state, fault, ocr_engine, init_ok)
        IN  /\ ocr_engine' = r.engine
            /\ runs' = IF r.exc.raised
                       THEN [runs EXCEPT ![p].state = OnException(r.state, r.exc),
                                         ![p].pc = "finally"]
                       ELSE [runs EXCEPT ![p].state = r.state, ![p].pc = "find_isbn"]
    /\ UNCHANGED <<db, pc, state, writes, calls, reply, faults, result, results,
                   transport, response, arg, ret, cache>>

\* lines 227-233 and 250-252
RunLookupIsbn(p) ==
    /\ runs[p].pc = "find_isbn"
    /\ LET st == runs[p].state
       IN  runs' = IF Truthy(Get(st.data, "isbn")) /\ FindBookByIsbn(db, st.data["isbn"])
                   THEN [runs EXCEPT
                           ![p].state = [st EXCEPT
                               !.final_status = "duplicate_isbn",
                               !.error_message = "ISBN deja traite",
                               !.data = Put(Put(@, "json_n8n_response", NoneObj),
                                            "json_n8n_response_parsed", NoneObj)],
                           ![p].pc = "finally"]
                   ELSE [runs EXCEPT ![p].pc = "n8n"]
    /\ UNCHANGED <<db, pc, state, writes, calls, reply, faults, result, results,
                   transport, response, ocr_engine, arg, ret, cache>>

\* lines 233-249
RunCallWorkflow(p) ==
    /\ runs[p].pc = "n8n"
    /\ \E t \in PipelineTransports :
          runs' = [runs EXCEPT ![p].state = EnrichmentStep(@, t),
                               ![p].calls = Append(@, BuildN8nPayload(runs[p].state)),
                               ![p].pc = "finally"]
    /\ UNCHANGED <<db, pc, state, writes, calls, reply, faults, result, results,
                   transport, response, ocr_engine, arg, ret, cache>>

\* lines 259-269: the finally clause, then the return of the outcome
RunFinalize(p) ==
    /\ runs[p].pc = "finally"
    /\ LET st == runs[p].state
       IN  IF st.book_id # NoId
           THEN /\ db' = UpdateBookEntry(db, st.book_id, FinalData(st))
                /\ runs' = [runs EXCEPT
                               ![p].state.data = FinalData(st),
                               ![p].writes = Append(@, [op |-> "update", id |-> st.book_id,
                                                        status |-> FinalData(st)["status"]]),
                               ![p].result = Ok(FinalData(st)),
                               ![p].pc = "returned"]
           ELSE /\ db' = db
                /\ runs' = [runs EXCEPT ![p].state.data = FinalData(st),
                                        ![p].result = Ok(FinalData(st)),
                                        ![p].pc = "returned"]
    /\ UNCHANGED <<pc, state, writes, calls, reply, faults, result, results,
                   transport, response, ocr_engine, arg, ret, cache>>

\* lines 259-267: update_book_entry raises inside the finally clause
RunFinalizeFails(p) ==
    /\ runs[p].pc = "finally"
    /\ runs[p].state.book_id # NoId
    /\ runs' = [runs EXCEPT
                   ![p].state.data = FinalData(runs[p].state),
                   ![p].writes = Append(@, [op |-> "update", id |-> runs[p].state.book_id,
                                            status |-> FinalData(runs[p].state)["status"]]),
                   ![p].result = FaultAt("update"),
                   ![p].pc = "returned"]
    /\ UNCHANGED <<db, pc, state, writes, calls, reply, faults, result, results,
                   transport, response, ocr_engine, arg, ret, cache>>

ConcurrentNext ==
    \E p \in Procs :
        \/ RunHash(p)
        \/ RunLookupHash(p)
        \/ RunCreate(p)
        \/ RunStepFails(p)
        \/ RunExtract(p)
        \/ RunLookupIsbn(p)
        \/ RunCallWorkflow(p)
        \/ RunFinalize(p)
        \/ RunFinalizeFails(p)

SpecConcurrent == InitConcurrent /\ [][ConcurrentNext]_vars

(***************************************************************************)
(* The contract layer on its own: a workflow client of integrate.py is     *)
(* called and the transport answers with any raw reply or failure.         *)
(***************************************************************************)
\* call_n8n_isbn_workflow(isbn, settings, ...) with the transport doing t
ContractCall ==
    /\ \E t \in Transports :
        /\ transport' = t
        /\ response' = CallN8nIsbnWorkflow(t)
    /\ UNCHANGED <<runs, cache, db, pc, state, writes, calls, reply, faults, result, results,
                 ocr_engine, arg, ret>>

ContractNext == ContractCall

SpecContract == Init /\ [][ContractNext]_vars

(***************************************************************************)
(* The identifier functions on their own: each is called once on an input  *)
(* drawn from the sets below.                                              *)
(***************************************************************************)
\* longest raw string handed to _normalize_isbn
MaxRawLen == 4

\* the characters of the raw strings
RawAlphabet == {"0", "x", "X", "a", "-", " ", ":"}

RawStrings == UNION {[1..n -> RawAlphabet] : n \in 0..MaxRawLen}

\* a string with the character at one place replaced
Altered(base, chars) ==
    {[base EXCEPT ![i] = d] : i \in 1..Len(base), d \in chars}

\* 12-digit and 9-digit prefixes
Prefixes12 == Altered(ButLast(Chars13A), DigitChars) \cup Altered(ButLast(Chars13C), DigitChars)
Prefixes9  == Altered(ButLast(Chars10B), DigitChars) \cup Altered(ButLast(Chars10X), DigitChars)

\* the characters tried in the last place
TrailChars == DigitChars \cup {"X"}

\* strings of every length from 0 to 15, and strings with separators, in
\* lower case or with digits outside ASCII
ValidatorInputs ==
    {SubSeq(Chars13A \o <<"0", "0">>, 1, n) : n \in 0..15}
        \cup {SubSeq(Chars10X \o <<"X">>, 1, n) : n \in 0..11}
        \cup Altered(Chars10X, {"x", "-", "a", SuperscriptTwo, ArabicThree})
        \cup Altered(Chars13A, {"X", " ", ":", SuperscriptTwo, ArabicThree})
        \cup {<<"0", "-", "3", "0", "6", "-", "4", "0", "6", "1", "5", "-", "2">>,
              <<"9", "7", "8", "-", "0", "3", "0", "6", "4", "0", "6", "1", "5", "7">>}

\* _is_valid_isbn on a prefix followed by each character in turn
CheckCharacters ==
    /\ arg = NoArg
    /\ \E p \in Prefixes12 \cup Prefixes9 :
        /\ arg' = [fn |-> "_is_valid_isbn", prefix |-> p]
        /\ ret' = [c \in TrailChars |-> IsValidIsbn(p \o <<c>>)]
    /\ UNCHANGED <<runs, cache, db, pc, state, writes, calls, reply, faults, result, results,
                   transport, response, ocr_engine>>

\* _is_valid_isbn(isbn)
ValidateCall ==
    /\ arg = NoArg
    /\ \E x \in ValidatorInputs :
        /\ arg' = [fn |-> "_is_valid_isbn", value |-> x]
        /\ ret' = IsValidIsbn(x)
    /\ UNCHANGED <<runs, cache, db, pc, state, writes, calls, reply, faults, result, results,
                   transport, response, ocr_engine>>

\* _normalize_isbn(value), and _normalize_isbn on what it returned
NormalizeCall ==
    /\ arg = NoArg
    /\ \E x \in RawStrings :
        /\ arg' = [fn |-> "_normalize_isbn", value |-> x]
        /\ ret' = [once |-> NormalizeIsbn(x),
                   twice |-> NormalizeIsbn(NormalizeIsbn(x))]
    /\ UNCHANGED <<runs, cache, db, pc, state, writes, calls, reply, faults, result, results,
                   transport, response, ocr_engine>>

IsbnNext == CheckCharacters \/ ValidateCall \/ NormalizeCall

SpecIsbn == Init /\ [][IsbnNext]_vars

(***************************************************************************)
(* The extractor on its own: _find_isbns_in_text is called once on a text, *)
(* or extract_isbn once on a book.                                         *)
(***************************************************************************)
\* the identifier fields of the books: empty, with the urn prefix, plain,
\* with hyphens, with the word ISBN and a blank, with the prefix in upper
\* case, not an identifier, with a wrong check digit, with a digit on which
\* int() raises, with a digit outside ASCII, and between blanks
IdentifierFields ==
    {<<>>,
     UrnPrefix \o Chars13A,
     Chars10B,
     Hyphened13A,
     <<"I", "S", "B", "N", " ">> \o Chars10X,
     <<"U", "R", "N", ":", "I", "S", "B", "N", ":">> \o Chars13C,
     <<"u", "u", "i", "d", "-", "0", "1">>,
     [Chars13A EXCEPT ![13] = "0"],
     [Chars13A EXCEPT ![5] = SuperscriptTwo],
     [Chars13A EXCEPT ![5] = ArabicThree],
     <<" ">> \o Chars13C \o <<" ">>}

\* longest list of identifier fields
MaxIdentifiers == 2

IdentifierLists == UNION {[1..n -> IdentifierFields] : n \in 0..MaxIdentifiers}

\* the texts of the document fragments: without a match, with ten-character
\* identifiers and a match that is not valid, with identifiers of both
\* lengths and a repetition, and with one thirteen-character identifier
DocumentTexts ==
    {Text(30, <<>>),
     Text(50, <<Match(4, Chars10B), Match(20, <<"1", "2", "3", "4", "5">>),
                Match(30, <<"0", "-", "3", "0", "6", "-", "4", "0", "6", "1", "5", "-", "2">>)>>),
     Text(80, <<Match(0, Chars10X), Match(15, Hyphened13A), Match(40, Chars13C),
                Match(60, Chars10X)>>),
     Text(20, <<Match(1, Chars13C)>>)}

\* longest list of fragments drawn freely; longer lists are five fragments
\* the fourth of which has no match, and a sixth
MaxDocuments == 2

DocumentLists ==
    UNION {[1..n -> DocumentTexts] : n \in 0..MaxDocuments}
        \cup {<<Text(30, <<>>), Text(30, <<>>), Text(30, <<>>), Text(30, <<>>), a, b>> :
                   a \in DocumentTexts, b \in DocumentTexts}

\* _find_isbns_in_text(text)
FindIsbnsCall ==
    /\ arg = NoArg
    /\ \E t \in DocumentTexts :
        /\ arg' = [fn |-> "_find_isbns_in_text", text |-> t]
        /\ ret' = FindIsbnsInText(t)
    /\ UNCHANGED <<runs, cache, db, pc, state, writes, calls, reply, faults, result, results,
                   transport, response, ocr_engine>>

\* extract_isbn(book, file_path)
ExtractIsbnCall ==
    /\ arg = NoArg
    /\ \E ids \in IdentifierLists, docs \in DocumentLists :
        /\ arg' = [fn |-> "extract_isbn", book |-> Book(ids, docs)]
        /\ ret' = ExtractIsbn(Book(ids, docs))
    /\ UNCHANGED <<runs, cache, db, pc, state, writes, calls, reply, faults, result, results,
                   transport, response, ocr_engine>>

ExtractNext == FindIsbnsCall \/ ExtractIsbnCall

SpecExtract == Init /\ [][ExtractNext]_vars

(***************************************************************************)
(* The OCR step on its own: extract_text_from_images is called once on a   *)
(* list of cover candidates, with the engine absent, not yet created or    *)
(* created.                                                                *)
(***************************************************************************)
\* longest list of cover candidates handed to the OCR step
MaxImages == 2

OcrImages ==
    {Image("cover.jpg", "image/jpeg", Picture(TRUE, Ok(ReadsA))),
     Image("blank.jpg", "image/jpeg", Picture(TRUE, Ok(Text(0, <<>>)))),
     Image("broken.png", "image/png",
           Picture(FALSE, Raise("OSError", "<cannot identify image>"))),
     Image("back.jpg", "image/jpeg",
           Picture(TRUE, Raise("RuntimeError", "<readtext failed>"))),
     Image("empty.jpg", "image/jpeg", NoBytes),
     Image("logo.svg", "image/svg+xml", Picture(TRUE, Ok(ReadsA)))}

ImageLists == UNION {[1..n -> OcrImages] : n \in 0..MaxImages}

\* extract_text_from_images(images, ...)
OcrCall ==
    /\ arg = NoArg
    /\ \E images \in ImageLists, init_ok \in BOOLEAN :
        LET r == ExtractTextFromImages(images, OcrMaxChars, ocr_engine, init_ok)
        IN  /\ arg' = [fn |-> "extract_text_from_images", images |-> images,
                       engine |-> ocr_engine]
            /\ ret' = r.ret
            /\ ocr_engine' = r.engine
    /\ UNCHANGED <<runs, cache, db, pc, state, writes, calls, reply, faults, result, results,
                   transport, response>>

OcrNext == OcrCall

SpecOcr == Init /\ [][OcrNext]_vars

(***************************************************************************)
(* The cover selector on its own: it is called once on a book whose image  *)
(* items and document fragments are drawn from the sets below.             *)
(***************************************************************************)
NameA   == <<"a", ".", "j", "p", "g">>
NameB   == <<"i", "/", "b", ".", "p", "n", "g">>
NameC   == <<"c", ".", "p", "n", "g">>
NameSvg == <<"i", "/", "L", ".", "S", "V", "G">>
TypePng == <<"i", "m", "a", "g", "e", "/", "p", "n", "g">>
TypeSvg == <<"I", "m", "a", "g", "e", "/", "S", "v", "g", "+", "x", "m", "l">>

Undecodable == Picture(FALSE, Raise("OSError", "<cannot identify image>"))

\* the image items: rasters of several sizes, with and without a name or a
\* media type; an image PIL cannot decode; an item whose content cannot be
\* read; vector images by name, by media type and by both
CoverItems ==
    {Item(NameA, TypePng, Ok(Sized(600, 800))),
     Item(NameB, <<>>, Ok(Sized(300, 300))),
     Item(NameC, TypePng, Ok(Sized(800, 900))),
     Item(<<>>, TypePng, Ok(Sized(600, 200))),
     Item(NameC, TypePng, Ok(Sized(250, 600))),
     Item(NameA, TypePng, Ok(Sized(200, 250))),
     Item(NameB, TypePng, Ok(Undecodable)),
     Item(NameA, TypePng, Raise("KeyError", "<no such file in the archive>")),
     Item(NameSvg, TypePng, Ok(Sized(600, 800))),
     Item(NameSvg, <<>>, Ok(Undecodable)),
     Item(NameC, TypeSvg, Ok(Sized(600, 800))),
     Item(NameSvg, TypeSvg, Ok(Undecodable))}

\* longest list of image items
MaxItems == 3

ItemLists == UNION {[1..n -> CoverItems] : n \in 0..MaxItems}

\* the fragments: without an image, with a reference to b.png, with
\* references to a.jpg and c.png under a path, a query and an anchor, and
\* with an img tag without src
Fragments ==
    {Fragment(<<>>),
     Fragment(<<<<"b", ".", "p", "n", "g">>>>),
     Fragment(<<<<".", ".", "/", "c", ".", "p", "n", "g", "?", "v", "#", "t">>, <<>>, NameA>>)}

\* the lists of fragments: none, every list of two, and lists of four
\* whose fourth alone refers to an image
FragmentLists ==
    {<<>>} \cup [1..2 -> Fragments]
        \cup {<<Fragment(<<>>), f, Fragment(<<>>), g>> : f \in Fragments, g \in Fragments}

\* extract_cover_images(book, file_path)
CoverCall ==
    /\ arg = NoArg
    /\ \E items \in ItemLists, documents \in FragmentLists :
        /\ arg' = [fn |-> "extract_cover_images",
                   book |-> [items |-> items, documents |-> documents]]
        /\ ret' = ExtractCoverImages([items |-> items, documents |-> documents])
    /\ UNCHANGED <<runs, cache, db, pc, state, writes, calls, reply, faults, result, results,
                   transport, response, ocr_engine>>

CoverNext == CoverCall

SpecCover == Init /\ [][CoverNext]_vars

(***************************************************************************)
(* The response validator on its own: it is handed any raw reply with the  *)
(* source tag of one of the workflows.                                     *)
(***************************************************************************)
\* the source tags the clients of integrate.py pass (lines 89, 138)
ExpectedSources == {"n8n_isbn", "n8n_metadata"}

\* _validate_workflow_response(result, expected_source)
ValidatorCall ==
    /\ transport = NoReply
    /\ \E r \in RawReplies, e \in ExpectedSources :
        /\ transport' = [tk |-> "validate", body |-> r, expected_source |-> e]
        /\ response' = ValidateWorkflowResponse(r, e)
    /\ UNCHANGED <<runs, cache, db, pc, state, writes, calls, reply, faults, result, results,
                 ocr_engine, arg, ret>>

ValidatorNext == ValidatorCall

SpecValidator == Init /\ [][ValidatorNext]_vars

(***************************************************************************)
(* The two n8n clients of integrate.py, each called with the transport     *)
(* answering or failing in any way.                                        *)
(***************************************************************************)
\* call_n8n_isbn_workflow(isbn, settings, ...)
IsbnClientCall ==
    /\ transport = NoReply
    /\ \E t \in Transports :
        /\ transport' = [workflow |-> "n8n_isbn", outcome |-> t]
        /\ response' = CallN8nIsbnWorkflow(t)
    /\ UNCHANGED <<runs, cache, db, pc, state, writes, calls, reply, faults, result, results,
                 ocr_engine, arg, ret>>

\* call_n8n_metadata_workflow(metadata, settings, ...)
MetadataClientCall ==
    /\ transport = NoReply
    /\ \E t \in Transports :
        /\ transport' = [workflow |-> "n8n_metadata", outcome |-> t]
        /\ response' = CallN8nMetadataWorkflow(t)
    /\ UNCHANGED <<runs, cache, db, pc, state, writes, calls, reply, faults, result, results,
                 ocr_engine, arg, ret>>

ClientsNext == IsbnClientCall \/ MetadataClientCall

SpecClients == Init /\ [][ClientsNext]_vars

(***************************************************************************)
(* The resumable-state cache on its own: the manager connects, and its     *)
(* two operations are called on lists of files, while the server answers   *)
(* or fails.                                                               *)
(***************************************************************************)
\* the lists of files handed to filter_processed_files
FileLists ==
    {<<>>,
     <<File("in/a.epub", ContentA)>>,
     <<File("in/a.epub", ContentA), File("in/b.epub", ContentB),
       File("in/c.epub", ContentC)>>}

\* connect()
ConnectCall ==
    /\ \E configured \in BOOLEAN, ping_ok \in BOOLEAN :
        /\ redis_client' = Connect(configured, ping_ok)
        /\ arg' = [fn |-> "connect", configured |-> configured, ping_ok |-> ping_ok]
    /\ ret' = Ok(None)
    /\ UNCHANGED <<runs, use_redis_state, processed_files, db, pc, state, writes, calls,
                   reply, faults, result, results, transport, response, ocr_engine>>

\* filter_processed_files(all_files)
FilterCall ==
    /\ \E all_files \in FileLists, is_list \in BOOLEAN, smembers_ok \in BOOLEAN :
        /\ arg' = [fn |-> "filter_processed_files", all_files |-> all_files,
                   is_list |-> is_list, smembers_ok |-> smembers_ok]
        /\ ret' = FilterProcessedFiles(redis_client, processed_files, all_files,
                                       is_list, smembers_ok)
    /\ UNCHANGED <<runs, cache, db, pc, state, writes, calls, reply, faults, result,
                   results, transport, response, ocr_engine>>

\* add_processed_file(file_path)
AddCall ==
    /\ \E file \in Files, sadd_ok \in BOOLEAN :
        /\ arg' = [fn |-> "add_processed_file", file |-> file, sadd_ok |-> sadd_ok]
        /\ processed_files' = AddProcessedFile(redis_client, processed_files, file, sadd_ok)
    /\ ret' = Ok(None)
    /\ UNCHANGED <<runs, use_redis_state, redis_client, db, pc, state, writes, calls,
                   reply, faults, result, results, transport, response, ocr_engine>>

StateNext == ConnectCall \/ FilterCall \/ AddCall

SpecState == Init /\ [][StateNext]_vars


(***************************************************************************)
(* Properties.                                                             *)
(***************************************************************************)
\* run_pipeline has ended and main_process has not yet stored what it got
Returned == pc = "returned"

\* the status of the outcome run_pipeline returned
RunStatus == IF result.raised THEN "raised" ELSE result.value["status"]

NonEmpty(msg) == msg \notin {None, ""}

\* the steps up to the provisional insert
InsertSteps == {"hash", "find_hash", "create"}

\* an earlier run stored a record for the content of the current file
StoredEarlier(i) ==
    /\ GetFileHash(results[i].file) = GetFileHash(state.file_path)
    /\ results[i].faults \cap InsertSteps = {}

\* C1: hash dedup.  When an earlier run on the same content got through
\* hashing, the hash lookup and the insert (or was itself a duplicate), and
\* hashing and the hash lookup answer in the current run, the current run
\* ends with status duplicate_hash and has sent no enrichment request.
C1_HashDedup ==
    (Returned /\ faults \cap {"hash", "find_hash"} = {})
        => \A i \in 1..Len(results) :
              StoredEarlier(i)
                 => /\ RunStatus = "duplicate_hash"
                    /\ calls = <<>>
                    /\ reply = NoReply

C1_Witness ==
    /\ Returned
    /\ faults = {}
    /\ \E i \in 1..Len(results) :
          StoredEarlier(i) /\ results[i].file # state.file_path
    /\ RunStatus = "duplicate_hash"

\* an earlier run on another content ended processed with the identifier
\* the extractor chooses for the current file
ProcessedSameIsbn(i) ==
    /\ ~results[i].outcome.raised
    /\ results[i].outcome.value["status"] = "processed"
    /\ GetFileHash(results[i].file) # GetFileHash(state.file_path)
    /\ Truthy(state.file_path.content.isbn_data.isbn)
    /\ Get(results[i].outcome.value, "isbn") = state.file_path.content.isbn_data.isbn

\* C2: identifier dedup.  When an earlier run on a file with another hash
\* ended processed with the identifier I, a later run on a file whose chosen
\* identifier is I, in which no collaborator raises, ends with status
\* duplicate_isbn and has sent no enrichment request.
C2_IsbnDedup ==
    (Returned /\ faults = {} /\ RunStatus # "duplicate_hash")
        => \A i \in 1..Len(results) :
              ProcessedSameIsbn(i)
                 => /\ RunStatus = "duplicate_isbn"
                    /\ calls = <<>>
                    /\ reply = NoReply

C2_Witness ==
    /\ Returned
    /\ faults = {}
    /\ \E i \in 1..Len(results) : ProcessedSameIsbn(i)
    /\ RunStatus = "duplicate_isbn"

\* the enrichment service answered this run with success=true, a source
\* string and a payload holding a non-empty title and author
SuccessReply ==
    /\ Len(calls) = 1
    /\ reply.tk = "reply"
    /\ reply.body.rk = "object"
    /\ reply.body.success = JTrue
    /\ IsStr(reply.body.source)
    /\ reply.body.payload.pk = "object"
    /\ IsStr(reply.body.payload.title) /\ reply.body.payload.title # ""
    /\ IsStr(reply.body.payload.author) /\ reply.body.payload.author # ""

\* the outcome is processed with the title, author and source of the reply
ProcessedFromReply ==
    /\ RunStatus = "processed"
    /\ Get(result.value, "final_title") = reply.body.payload.title
    /\ Get(result.value, "final_author") = reply.body.payload.author
    /\ Get(result.value, "choice_source") = reply.body.source

ParserFailed == "extract" \in faults /\ ~state.file_path.content.readable

\* C4: when the container parser cannot read the file, the run ends failed
\* with a non-empty error message and the persisted record of the file
\* carries no identifier.
C4_Unreadable ==
    (Returned /\ ParserFailed /\ ~result.raised)
        => /\ RunStatus = "failed"
           /\ NonEmpty(result.value["error_message"])
           /\ db[state.book_id]["status"] = "failed"
           /\ NonEmpty(db[state.book_id]["error_message"])
           /\ Get(db[state.book_id], "isbn") = None
           /\ ~Has(db[state.book_id], "json_extract_isbn")

C4_Witness ==
    /\ Returned
    /\ ParserFailed
    /\ RunStatus = "failed"
    /\ Len(writes) = 2

\* C5 as stated: whichever step fails, run_pipeline returns an outcome with
\* status failed and the failure's description, and raises nothing.
C5_NeverRaises ==
    (Returned /\ faults # {})
        => /\ ~result.raised
           /\ RunStatus = "failed"
           /\ NonEmpty(result.value["error_message"])

\* C6 as stated: the duplicate_hash path performs exactly one persistence
\* write, a terminal row with the status duplicate_hash, and no insert.
C6_OneTerminalWrite ==
    (Returned /\ state.final_status = "duplicate_hash")
        => /\ Len(writes) = 1
           /\ writes[1].op # "insert"
           /\ writes[1].status = "duplicate_hash"

\* C6, amended: the duplicate_hash path performs no persistence write at
\* all, neither a provisional insert nor a terminal update; the status
\* duplicate_hash is in the returned outcome only, never in a row.
C6_NoWrite ==
    /\ (state.final_status = "duplicate_hash" => writes = <<>> /\ state.book_id = NoId)
    /\ (Returned /\ state.final_status = "duplicate_hash"
            => RunStatus = "duplicate_hash")
    /\ \A i \in 1..Len(db) : db[i]["status"] # "duplicate_hash"

C6_Witness ==
    /\ Returned
    /\ state.final_status = "duplicate_hash"
    /\ writes = <<>>
    /\ Len(db) = 1

TerminalStatuses == {"processed", "failed", "duplicate_isbn"}

\* C7: a run that is no hash duplicate and whose provisional insert
\* succeeded sends the persistence layer exactly two writes: the insert
\* with status pending, then one update of the same row with the terminal
\* status, on the processed, failed and duplicate_isbn paths alike.
C7_TwoWrites ==
    /\ (Returned /\ state.book_id # NoId)
          => /\ Len(writes) = 2
             /\ writes[1] = [op |-> "insert", id |-> state.book_id, status |-> "pending"]
             /\ writes[2].op = "update"
             /\ writes[2].id = state.book_id
             /\ writes[2].status = state.final_status
             /\ state.final_status \in TerminalStatuses
    /\ (pc \notin {"idle", "returned"} /\ state.book_id # NoId)
          => writes = <<[op |-> "insert", id |-> state.book_id, status |-> "pending"]>>
    /\ \A k \in 1..Len(results) :
          \/ results[k].writes = <<>>
          \/ /\ Len(results[k].writes) = 2
             /\ results[k].writes[1].op = "insert"
             /\ results[k].writes[1].status = "pending"
             /\ results[k].writes[2].op = "update"
             /\ results[k].writes[2].id = results[k].writes[1].id
             /\ results[k].writes[2].status \in TerminalStatuses

C7_Witness ==
    /\ Returned
    /\ state.final_status = "duplicate_isbn"
    /\ Len(writes) = 2
    /\ db[state.book_id]["status"] = "duplicate_isbn"

\* the keys _extract_local_data sets before the identifier lookup
ExtractionKeys ==
    {"json_extract_metadata", "epub_metadata", "json_extract_isbn", "isbn",
     "isbn_source", "isbn_candidates", "json_extract_text", "text_preview",
     "image_ocr", "has_cover", "json_extract_cover"}

\* the outcome holds what the extractors returned for the content
BundleIn(data, content) ==
    /\ ExtractionKeys \subseteq DOMAIN data
    /\ data["json_extract_metadata"].metadata = content.meta
    /\ data["json_extract_isbn"] = content.isbn_data
    /\ data["isbn"] = content.isbn_data.isbn
    /\ data["text_preview"] = content.text
    /\ data["image_ocr"] = (IF ocr_engine = "absent" THEN <<>> ELSE content.ocr)
    /\ data["json_extract_cover"] = CoverDump(content.has_cover)

\* the row holds every extraction column the table has
BundleInRow(row, content) ==
    /\ row["isbn"] = content.isbn_data.isbn
    /\ row["isbn_source"] = content.isbn_data.isbn_source
    /\ row["has_cover"] = content.has_cover
    /\ row["json_extract_isbn"] = JsonDumps(content.isbn_data)
    /\ row["json_extract_metadata"] = JsonDumps([metadata |-> content.meta, error |-> None])
    /\ row["json_extract_cover"] = JsonDumps(CoverDump(content.has_cover))

SynthesizedFailure ==
    /\ Len(calls) = 1
    /\ \/ reply.tk \in {"badjson", "http_status", "network", "timeout"}
       \/ /\ reply.tk = "reply"
          /\ ValidateWorkflowResponse(reply.body, ExpectedSource).raised

\* the message lines 247-248 derive from an errors list
MessageOf(errors) ==
    IF JoinErrors(errors) # "" THEN JoinErrors(errors)
    ELSE "SortBook workflow n8n a retourne une erreur"

\* C9 as stated: when the contract layer returns a synthesized failure, the
\* run ends failed with the response's errors joined as its error message.
C9_JoinedErrors ==
    (Returned /\ ~result.raised /\ SynthesizedFailure)
        => /\ RunStatus = "failed"
           /\ result.value["error_message"]
                = MessageOf(CallN8nSortebookWorkflow(reply).value.normalized.errors.items)

\* a reply with success=true whose payload is missing, not an object, or
\* has a missing or empty title or author
BadPayload(p) ==
    \/ p.pk # "object"
    \/ p.title \in {Absent, ""}
    \/ p.author \in {Absent, ""}

BadSuccessReply ==
    /\ transport.tk = "reply"
    /\ transport.body.rk = "object"
    /\ transport.body.success = JTrue
    /\ BadPayload(transport.body.payload)

\* C10: a raw reply with success=true whose payload is missing, is not an
\* object, or has a missing or empty title or author is answered by the
\* client with a synthesized failure: success=false, an errors list of
\* exactly one element, the expected source, the raw reply kept; the call
\* raises nothing.
C10_Rejected ==
    BadSuccessReply
        => /\ ~response.raised
           /\ response.value.success = JFalse
           /\ response.value.errors.ek = "list"
           /\ Len(response.value.errors.items) = 1
           /\ response.value.source = "n8n_isbn"
           /\ response.value.raw = RawOf(transport.body)

C10_Witness ==
    /\ BadSuccessReply
    /\ transport.body.source = "n8n_isbn"
    /\ transport.body.payload = PayloadObj("T", Absent)
    /\ response.value.errors.items = <<MsgTitleAuthor>>

\* the validator was called on a raw reply
Validated == "expected_source" \in DOMAIN transport

\* the conditions the contract states for a reply to be accepted
StatedConditions(r) ==
    /\ r.rk = "object"
    /\ IsBool(r.success)
    /\ IsStr(r.source)
    /\ r.success = JTrue
          => /\ r.payload.pk = "object"
             /\ IsStr(r.payload.title) /\ r.payload.title # ""
             /\ IsStr(r.payload.author) /\ r.payload.author # ""

\* the accepted reply is the raw reply with errors defaulted to the empty
\* list when the raw reply has none
ReturnedAsIs(r, v) ==
    /\ v.errors = (IF r.errors.ek \in {"absent", "null"} THEN ErrorsList(<<>>)
                   ELSE r.errors)
    /\ [v EXCEPT !.errors = r.errors] = r

\* C11 as stated: the validator accepts a raw reply exactly when it is an
\* object with a boolean success, a string source and, if success is true,
\* a payload object whose title and author are non-empty strings; nothing
\* else, the value of source included, causes rejection.
C11_AcceptsExactly ==
    Validated => (~response.raised <=> StatedConditions(transport.body))

\* the conditions under which the code accepts a reply
CodeConditions(r, expected_source) ==
    /\ r.rk = "object"
    /\ IsBool(r.success)
    /\ IsStr(r.source) /\ r.source = expected_source
    /\ r.success = JTrue
          => /\ r.payload.pk = "object"
             /\ r.payload.title \notin {Absent, None, ""}
             /\ r.payload.author \notin {Absent, None, ""}
    /\ r.success = JFalse => r.payload.pk \in {"absent", "null", "object"}
    /\ r.errors.ek \in {"absent", "null", "list"}

\* C11, amended: the validator accepts a raw reply exactly when it is an
\* object with a boolean success, a string source equal to the expected
\* source, a payload that is an object with a non-empty title and author
\* if success is true and that is absent, null or an object if success is
\* false, and errors that are absent, null or a list; an accepted reply is
\* returned with errors defaulted to the empty list when absent or null and
\* is otherwise unchanged.
C11_Accepts ==
    Validated
        => /\ ~response.raised
                <=> CodeConditions(transport.body, transport.expected_source)
           /\ ~response.raised => ReturnedAsIs(transport.body, response.value)
           /\ response.raised => response.type = "ValueError"

C11_Witness ==
    /\ Validated
    /\ ~response.raised
    /\ transport.body.success = JTrue
    /\ transport.body.errors = ErrorsAbsent
    /\ response.value.errors = ErrorsList(<<>>)
    /\ response.value.payload = PayloadObj("T", "A")

\* the transport failed: a network failure, a timeout or a non-2xx status
TransportFailed ==
    /\ "workflow" \in DOMAIN transport
    /\ transport.outcome.tk \in {"network", "timeout", "http_status"}

\* C12: a network failure, a timeout or a non-2xx HTTP status makes the
\* client return the synthesized failure (success=false, an errors list of
\* exactly one element, the expected source, an empty payload, no raw
\* reply); the client raises nothing.
C12_TransportFailure ==
    TransportFailed
        => /\ ~response.raised
           /\ response.value.success = JFalse
           /\ response.value.errors.ek = "list"
           /\ Len(response.value.errors.items) = 1
           /\ response.value.source = transport.workflow
           /\ response.value.payload = PayloadObj(Absent, Absent)
           /\ response.value.raw = RawAbsent

C12_Witness ==
    /\ TransportFailed
    /\ transport.workflow = "n8n_metadata"
    /\ transport.outcome.tk = "timeout"
    /\ ~response.raised
    /\ response.value.errors.items = <<"Network error calling N8N Metadata: <cause>">>

\* the statuses of the state machine
OutcomeStatuses == {"duplicate_hash", "duplicate_isbn", "processed", "failed"}

\* a run is in progress and its status is already terminal
TerminalAssigned == pc # "idle" /\ state.final_status # "pending"

\* C13: every outcome run_pipeline returns has a status among
\* duplicate_hash, duplicate_isbn, processed and failed, never pending;
\* within a run a terminal status, once assigned, is not replaced, so the
\* status leaves pending at most once.
C13_StatusMachine ==
    /\ [](/\ (Returned /\ ~result.raised) => RunStatus \in OutcomeStatuses
          /\ Returned => state.final_status \in OutcomeStatuses
          /\ state.final_status \in OutcomeStatuses \cup {"pending"}
          /\ \A k \in 1..Len(results) :
                ~results[k].outcome.raised
                    => results[k].outcome.value["status"] \in OutcomeStatuses)
    /\ [][TerminalAssigned => state'.final_status = state.final_status]_vars

C13_Witness ==
    /\ Returned
    /\ RunStatus = "duplicate_isbn"
    /\ Len(results) = 1
    /\ results[1].outcome.value["status"] = "processed"

\* the value of a character of an identifier: X counts ten
CharValue(c) == IF c = "X" THEN 10 ELSE CHOOSE n \in 0..9 : ToString(n) = c

\* the ISBN-10 condition: the sum of the ten values, weighted 10 down to 1,
\* is a multiple of 11
RECURSIVE Sum10(_, _)
Sum10(isbn, i) ==
    IF i > Len(isbn) THEN 0 ELSE CharValue(isbn[i]) * (11 - i) + Sum10(isbn, i + 1)

\* the ISBN-13 condition: the sum of the thirteen digits, weighted 1 and 3
\* in turn, is a multiple of 10
RECURSIVE Sum13(_, _)
Sum13(isbn, i) ==
    IF i > Len(isbn) THEN 0
    ELSE CharValue(isbn[i]) * (IF i % 2 = 1 THEN 1 ELSE 3) + Sum13(isbn, i + 1)

ChecksumCorrect(isbn) ==
    IF Len(isbn) = 10 THEN Sum10(isbn, 1) % 11 = 0 ELSE Sum13(isbn, 1) % 10 = 0

\* the characters accepted in the last place after the prefix
AcceptedAfter == {c \in DOMAIN ret : ret[c] = Ok(TRUE)}

\* C19: for every 12-digit prefix exactly one trailing digit makes the
\* 13-character string valid, and for every 9-digit prefix exactly one
\* trailing character among 0-9 and X makes the 10-character string valid;
\* the accepted character is the one that makes the checksum correct; a
\* string whose normalized length is neither 10 nor 13 is invalid.
C19_IsValid ==
    /\ "prefix" \in DOMAIN arg
          => /\ Cardinality(AcceptedAfter) = 1
             /\ \A c \in TrailChars :
                   (ret[c] = Ok(TRUE))
                      <=> /\ Len(arg.prefix) = 12 => c # "X"
                          /\ ChecksumCorrect(arg.prefix \o <<c>>)
             /\ \A c \in TrailChars : ~ret[c].raised
    /\ ("value" \in DOMAIN arg /\ arg.fn = "_is_valid_isbn"
            /\ Len(NormalizeIsbn(arg.value)) \notin {10, 13})
          => ret = Ok(FALSE)

C19_Witness ==
    /\ "prefix" \in DOMAIN arg
    /\ arg.prefix = ButLast(Chars10X)
    /\ AcceptedAfter = {"X"}

\* C20: normalize is idempotent: normalizing what normalize returned
\* changes nothing.
C20_Idempotent ==
    arg.fn = "_normalize_isbn" => ret.twice = ret.once

C20_Witness ==
    /\ arg.fn = "_normalize_isbn"
    /\ arg.value = <<"0", "-", "x", ":">>
    /\ ret.once = <<"0", "X">>
    /\ ret.twice = <<"0", "X">>

\* the keys of an outcome, none of which holds image content
OutcomeKeys ==
    {"file_hash", "status", "error_message", "processing_completed_at",
     "processing_time_ms", "json_extract_metadata", "epub_metadata",
     "json_extract_isbn", "isbn", "isbn_source", "isbn_candidates",
     "json_extract_text", "text_preview", "image_ocr", "has_cover",
     "json_extract_cover", "json_n8n_response", "json_n8n_response_parsed",
     "final_title", "final_author", "choice_source"}

\* the fields under which image content travels
BinaryFields == {"cover_content", "bytes", "content_base64"}

\* an outcome without image content: no key for it, none in the cover
\* metadata, none in the OCR results
NoRawBytes(data) ==
    /\ DOMAIN data \subseteq OutcomeKeys
    /\ Has(data, "json_extract_cover")
          => (DOMAIN data["json_extract_cover"]) \cap BinaryFields = {}
    /\ Has(data, "image_ocr")
          => \A i \in 1..Len(data["image_ocr"]) :
                DOMAIN data["image_ocr"][i] = {"filename", "text"}

\* a row without image content
NoRawBytesInRow(row) ==
    /\ (DOMAIN row) \cap BinaryFields = {}
    /\ (Has(row, "json_extract_cover") /\ row["json_extract_cover"] # NoneObj)
          => (DOMAIN row["json_extract_cover"].json) \cap BinaryFields = {}

\* C14: binary image content is never persisted: in every reachable state
\* the outcome data of the run, which the finally clause hands to the
\* persistence update and run_pipeline returns, holds no raw cover bytes,
\* and neither does any row of the table, whichever path the run took.
C14_NoBinary ==
    /\ NoRawBytes(state.data)
    /\ ~result.raised => NoRawBytes(result.value)
    /\ \A i \in 1..Len(db) : NoRawBytesInRow(db[i])
    /\ \A k \in 1..Len(results) :
          ~results[k].outcome.raised => NoRawBytes(results[k].outcome.value)

C14_Witness ==
    /\ Returned
    /\ RunStatus = "processed"
    /\ state.file_path.content.has_cover = JTrue
    /\ state.cover_images # <<>>
    /\ state.cover_images[1].bytes # NoBytes
    /\ db[state.book_id]["json_extract_cover"].json["cover_filename"] = "cover.jpg"

\* the run went through the whole of _extract_local_data, and its final
\* update reached the table
ExtractionCompleted ==
    /\ Returned
    /\ ~result.raised
    /\ state.book_id # NoId
    /\ Has(state.data, "json_extract_cover")

\* the columns the row has for the extraction bundle
PersistedBundle(row, content) ==
    /\ {"json_extract_metadata", "json_extract_isbn", "has_cover",
        "json_extract_cover"} \subseteq DOMAIN row
    /\ row["json_extract_metadata"] = JsonDumps([metadata |-> content.meta, error |-> None])
    /\ row["json_extract_isbn"] = JsonDumps(content.isbn_data)
    /\ row["has_cover"] = content.has_cover
    /\ row["json_extract_cover"] = JsonDumps(CoverDump(content.has_cover))
    /\ Truthy(content.isbn_data.isbn)
          => /\ Get(row, "isbn") = content.isbn_data.isbn
             /\ Get(row, "isbn_source") = content.isbn_data.isbn_source

\* the keys under which the outcome holds the text preview and the OCR text
TextAndOcrKeys == {"json_extract_text", "text_preview", "image_ocr"}

FailedPartWay ==
    /\ Returned
    /\ ~result.raised
    /\ "extract" \in faults
    /\ state.file_path.content.readable

\* C16 as stated: when an extraction sub-step fails part-way, the run ends
\* failed with the failure's description, and the results of the sub-steps
\* that completed before the failure (metadata, identifier data, text
\* preview, cover data) are in the outcome.
C16_PartialBundle ==
    FailedPartWay
        => /\ RunStatus = "failed"
           /\ NonEmpty(result.value["error_message"])
           /\ Has(result.value, "json_extract_metadata")
           /\ Has(result.value, "json_extract_isbn")
           /\ Has(result.value, "json_extract_text")
           /\ Has(result.value, "has_cover")
           /\ Has(result.value, "json_extract_cover")

\* C17 as stated: whatever the cover candidates and whatever the failure
\* of the OCR engine (absent, failing to initialise, failing on an image),
\* extract_text_from_images returns a list, possibly empty, and raises
\* nothing; with the engine absent the list is empty.
C17_OcrNeverRaises ==
    arg.fn = "extract_text_from_images"
        => /\ ~ret.raised
           /\ arg.engine = "absent" => ret.value = <<>>

\* the identifiers of a provenance: the metadata field, the scanned
\* document text, the OCR text of the covers
FoundInMetadata(content) ==
    IF content.isbn_data.isbn_source = "metadata"
    THEN {content.isbn_data.isbn} ELSE {}

FoundInText(content) ==
    IF content.isbn_data.isbn_source = "content"
    THEN Values(content.isbn_data.all_isbns) ELSE {}

FoundByOcr(ocr_results) ==
    UNION {Values(FindIsbnsInText(ocr_results[i].text)) : i \in 1..Len(ocr_results)}

NoDuplicates(list) ==
    \A i, j \in 1..Len(list) : list[i] = list[j] => i = j

\* the identifier buckets of an enrichment request
GoodBuckets(isbn, content, ocr_results) ==
    /\ NoDuplicates(isbn.metadata \o isbn.text \o isbn.ocr)
    /\ Values(isbn.metadata) = FoundInMetadata(content)
    /\ Values(isbn.text) = FoundInText(content) \ FoundInMetadata(content)
    /\ Values(isbn.ocr)
          = FoundByOcr(ocr_results) \ (FoundInMetadata(content) \cup FoundInText(content))
    /\ content.isbn_data.isbn_source = "metadata"
          => isbn.metadata = <<content.isbn_data.isbn>>

\* C18: in every enrichment request the identifier buckets metadata, text
\* and ocr are pairwise disjoint and without duplicates; an identifier
\* found under several provenances is only in the bucket of the highest
\* priority (metadata, then text, then ocr); a single valid metadata
\* identifier m gives metadata = [m].
C18_Buckets ==
    \A i \in 1..Len(calls) :
        GoodBuckets(calls[i].isbn, state.file_path.content, calls[i].ocr)

C18_Witness ==
    /\ Len(calls) = 1
    /\ state.file_path.content.id = "B"
    /\ calls[1].isbn = [metadata |-> <<>>, text |-> <<IsbnB, IsbnA>>, ocr |-> <<IsbnC>>]


\* the elements of a list
Elements(list) == {list[i] : i \in 1..Len(list)}

\* the strings a book or a text offers: each identifier field and each
\* match, cleaned
FieldChars(book) ==
    {NormalizeIsbn(Strip(Remove(f, UrnPrefix))) : f \in Elements(book.identifiers)}
MatchChars(text) ==
    {NormalizeIsbn(Strip(m.raw)) : m \in Elements(text.matches)}

\* the strings among them that isValid accepts
ValidStrings(offered) == {Str(c) : c \in {x \in offered : IsValidIsbn(x) = Ok(TRUE)}}

\* the valid identifiers of the fragments, in the order of discovery, with
\* their repetitions: as characters, and as strings
RECURSIVE SeenChars(_)
SeenChars(documents) ==
    IF documents = <<>> THEN <<>>
    ELSE LET cleaned == [i \in 1..Len(documents[1].matches) |->
                            NormalizeIsbn(Strip(documents[1].matches[i].raw))]
         IN  SelectSeq(cleaned, LAMBDA c : IsValidIsbn(c) = Ok(TRUE))
                \o SeenChars(Tail(documents))
Seen(documents) == Strs(SeenChars(documents))

\* the place where a value is seen first
FirstSeen(seen, v) ==
    CHOOSE k \in 1..Len(seen) : seen[k] = v /\ \A l \in 1..(k - 1) : seen[l] # v

\* the list holds values that were seen, in the order they were first seen
FirstSeenOrder(list, seen) ==
    /\ Elements(list) \subseteq Elements(seen)
    /\ \A i, j \in 1..Len(list) :
           i < j => FirstSeen(seen, list[i]) < FirstSeen(seen, list[j])

\* C21: identifier discovery retains only checksum-valid strings: every
\* element of the candidate set returned by extract_isbn and by
\* _find_isbns_in_text, and the chosen identifier, is a string isValid
\* accepts; the candidate set has no duplicates and keeps the order in which
\* the identifiers were first seen; the chosen identifier is a member of the
\* candidate set; and provenance is none exactly when the candidate set is
\* empty.
C21_OnlyValid ==
    /\ arg.fn = "_find_isbns_in_text"
          => /\ Elements(ret) \subseteq ValidStrings(MatchChars(arg.text))
             /\ NoDuplicates(ret)
             /\ FirstSeenOrder(ret, Seen(<<arg.text>>))
    /\ arg.fn = "extract_isbn"
          => /\ Elements(ret.isbn_candidates)
                    \subseteq ValidStrings(FieldChars(arg.book)
                                 \cup UNION {MatchChars(t) : t \in Elements(arg.book.documents)})
             /\ ret.all_isbns = ret.isbn_candidates
             /\ NoDuplicates(ret.isbn_candidates)
             /\ ret.isbn_source = "content"
                    => FirstSeenOrder(ret.isbn_candidates, Seen(arg.book.documents))
             /\ ret.isbn # None => ret.isbn \in Elements(ret.isbn_candidates)
             /\ ret.isbn = None <=> ret.isbn_candidates = <<>>
             /\ ret.isbn_source = "none" <=> ret.isbn_candidates = <<>>

C21_Witness ==
    /\ arg.fn = "extract_isbn"
    /\ \E t \in Elements(arg.book.documents) :
           /\ \E c \in MatchChars(t) : IsValidIsbn(c) = Ok(FALSE)
           /\ Len(t.matches) > Cardinality(MatchChars(t))
    /\ ret.isbn_source = "content"
    /\ ret.isbn_candidates = <<IsbnB, "080442957X", IsbnA, IsbnC>>
    /\ ret.isbn = IsbnA

\* extract_isbn's cleaning of an identifier field
CleanField(f) == NormalizeIsbn(Strip(Remove(f, UrnPrefix)))

\* the identifier fields that are checksum-valid once cleaned, by position
ValidFields(identifiers) ==
    {i \in 1..Len(identifiers) : IsValidIsbn(CleanField(identifiers[i])) = Ok(TRUE)}

\* the first of them
FirstValidField(identifiers) ==
    Str(CleanField(identifiers[CHOOSE i \in ValidFields(identifiers) :
                                   \A j \in ValidFields(identifiers) : i <= j]))

\* C25: metadata-first policy: when an identifier field is checksum-valid
\* after normalization, extract_isbn returns the first such field, in
\* declared order, as the single identifier, with provenance metadata and a
\* candidate set that holds it alone, whatever the later fields and the
\* document fragments are.
C25_MetadataFirst ==
    (arg.fn = "extract_isbn" /\ ValidFields(arg.book.identifiers) # {})
        => ret = IsbnDataOf(FirstValidField(arg.book.identifiers), "metadata",
                            <<FirstValidField(arg.book.identifiers)>>)

\* the fragments among the first five
FirstFragments(documents) ==
    [i \in {k \in 1..Len(documents) : k <= 5} |-> documents[i]]

\* the representative of the identifiers seen: the first of thirteen
\* characters if there is one, the first otherwise
Representative(seen) ==
    LET long == {i \in 1..Len(seen) : Len(seen[i]) = 13}
    IN  IF long = {} THEN Str(seen[1])
        ELSE Str(seen[CHOOSE i \in long : \A j \in long : i <= j])

\* C26: content fallback: when no identifier field is valid, the first five
\* document fragments alone are scanned; if they hold a valid identifier,
\* the candidate set holds the identifiers seen in them, the chosen one is
\* the first seen of thirteen characters if there is one and the first seen
\* otherwise, and provenance is content; if they hold none, the candidate
\* set is empty, no identifier is chosen and provenance is none.
C26_ContentFallback ==
    (arg.fn = "extract_isbn" /\ ValidFields(arg.book.identifiers) = {})
        => LET seen == SeenChars(FirstFragments(arg.book.documents))
           IN  IF seen # <<>>
               THEN /\ ret.isbn_source = "content"
                    /\ Elements(ret.isbn_candidates) = Elements(Strs(seen))
                    /\ ret.isbn = Representative(seen)
               ELSE /\ ret.isbn_source = "none"
                    /\ ret.isbn_candidates = <<>>
                    /\ ret.isbn = None

\* the candidates the selector returned: those of the list and the primary
ReturnedCandidates ==
    Elements(ret.images) \cup (IF ret.primary = NoneObj THEN {} ELSE {ret.primary})

\* the declared file names and media types of the book that indicate a
\* vector format: a name that ends in ".svg" and a type that holds "svg",
\* in any case
VectorNames(book) ==
    {Str(it.file_name) : it \in {x \in Elements(book.items) :
                                    EndsWithLower(x.file_name, SvgSuffix)}}
VectorTypes(book) ==
    {Str(it.media_type) : it \in {x \in Elements(book.items) :
                                     InLower(SvgWord, x.media_type)}}

\* C22: the cover selector never returns, in its candidate list or as
\* primary, an item whose declared media type or file name indicates a
\* vector (SVG) format.
C22_NoVector ==
    arg.fn = "extract_cover_images"
        => \A p \in ReturnedCandidates :
              /\ p.filename \notin VectorNames(arg.book)
              /\ p.media_type \notin VectorTypes(arg.book)

C22_Witness ==
    /\ arg.fn = "extract_cover_images"
    /\ arg.book.items = <<Item(NameSvg, TypePng, Ok(Sized(600, 800))),
                          Item(NameC, TypeSvg, Ok(Sized(600, 800))),
                          Item(NameA, TypePng, Ok(Sized(600, 800)))>>
    /\ Len(ret.images) = 1
    /\ ret.primary.filename = "a.jpg"

\* the items of the book the selector could read and that are not vector
\* images, by position
RasterItems(book) ==
    {i \in 1..Len(book.items) :
        /\ ~book.items[i].content.raised
        /\ ~EndsWithLower(book.items[i].file_name, SvgSuffix)
        /\ ~InLower(SvgWord, book.items[i].media_type)}

\* the item decodes, and both of its sides, or one of them, are below the
\* threshold
BothSidesBelow(item) ==
    /\ item.content.value.opens
    /\ item.content.value.width < 300 /\ item.content.value.height < 300
OneSideBelow(item) ==
    /\ item.content.value.opens
    /\ (item.content.value.width < 300 \/ item.content.value.height < 300)

\* C27, as stated: a raster item is excluded by size only when both of its
\* dimensions are known and both are below 300; an item with one dimension
\* at or above 300, and any undecodable item, stays a candidate.
C27_BothBelow ==
    arg.fn = "extract_cover_images"
        => Len(ret.images)
              = Cardinality({i \in RasterItems(arg.book) :
                                ~BothSidesBelow(arg.book.items[i])})

\* C27, amended: a raster item is excluded by size exactly when both of its
\* dimensions are known and at least one of them is below 300; an item with
\* both dimensions at or above 300, and any undecodable item, stays a
\* candidate, so that every candidate of known size has both sides at or
\* above 300.
C27_EitherBelow ==
    arg.fn = "extract_cover_images"
        => /\ Len(ret.images)
                 = Cardinality({i \in RasterItems(arg.book) :
                                   ~OneSideBelow(arg.book.items[i])})
           /\ \A p \in Elements(ret.images) :
                 p.width # Nothing => p.width[1] >= 300 /\ p.height[1] >= 300

C27_Witness ==
    /\ arg.fn = "extract_cover_images"
    /\ arg.book.items = <<Item(<<>>, TypePng, Ok(Sized(600, 200))),
                          Item(NameB, TypePng, Ok(Undecodable)),
                          Item(NameB, <<>>, Ok(Sized(300, 300)))>>
    /\ Len(ret.images) = 2
    /\ \E p \in Elements(ret.images) : p.width = Nothing
    /\ \E p \in Elements(ret.images) : p.width = Some(300)

\* the appearance-order hint of a returned candidate: the index of the
\* first scanned fragment that refers to its base name, NoHint without one
HintOf(book, p) ==
    LET name == CHOOSE n \in {it.file_name : it \in Elements(book.items)} :
                    Str(n) = p.filename
    IN  Priority(book.documents, BaseName(name))

\* p may stand before q in the ranking
RankedBefore(book, p, q) ==
    \/ HintOf(book, p) < HintOf(book, q)
    \/ /\ HintOf(book, p) = HintOf(book, q)
       /\ \/ q.width = Nothing
          \/ p.width # Nothing /\ p.width[1] >= q.width[1]

\* C28: the candidate list is sorted ascending by appearance-order hint,
\* candidates without a hint last, then descending by known width, unknown
\* width last within equal priority; the primary candidate is exactly the
\* first element of the list, at most one candidate carries the primary
\* flag, and the primary is absent exactly when the list is empty.
C28_Ranking ==
    arg.fn = "extract_cover_images"
        => /\ \A i, j \in 1..Len(ret.images) :
                 i < j => RankedBefore(arg.book, ret.images[i], ret.images[j])
           /\ ret.images # <<>> => ret.primary = ret.images[1]
           /\ \A i \in 1..Len(ret.images) :
                 "primary" \in DOMAIN ret.images[i] => i = 1 /\ ret.images[i].primary
           /\ ret.images # <<>> => "primary" \in DOMAIN ret.images[1]
           /\ ret.primary = NoneObj <=> ret.images = <<>>

C28_Witness ==
    /\ arg.fn = "extract_cover_images"
    /\ arg.book.items = <<Item(NameA, TypePng, Ok(Sized(600, 800))),
                          Item(NameB, TypePng, Ok(Undecodable)),
                          Item(NameC, TypePng, Ok(Sized(800, 900)))>>
    /\ [i \in 1..Len(ret.images) |-> ret.images[i].filename]
          = <<"i/b.png", "c.png", "a.jpg">>
    /\ ret.primary.filename = "i/b.png"

\* the cache is not there for the call: no client (not configured, or the
\* connection failed), or the command raised
CacheUnavailable ==
    \/ redis_client = None
    \/ arg.fn = "filter_processed_files" /\ ~arg.smembers_ok
    \/ arg.fn = "add_processed_file" /\ ~arg.sadd_ok

\* C23: resumable-state fail-open: when the cache is not configured, not
\* connected, or a cache operation errors, filter_processed_files returns
\* every input file and add_processed_file returns without raising, so
\* that the batch is neither blocked nor shrunk; connect() leaves no client
\* when the host is not configured or the server does not answer, and does
\* not raise.
C23_FailOpen ==
    /\ (arg.fn = "filter_processed_files" /\ CacheUnavailable)
          => ret = Ok(arg.all_files)
    /\ (arg.fn = "add_processed_file" /\ CacheUnavailable)
          => ret = Ok(None)
    /\ (arg.fn = "connect" /\ ~(arg.configured /\ arg.ping_ok))
          => redis_client = None /\ ret = Ok(None)

C23_Witness ==
    /\ arg.fn = "filter_processed_files"
    /\ redis_client = "connected"
    /\ ~arg.smembers_ok
    /\ Len(arg.all_files) = 3
    /\ Paths(arg.all_files) \cap processed_files # {}
    /\ ret = Ok(arg.all_files)

\* what the steps of the run in progress left behind: the provisional
\* insert, a result of the extraction, the verdict of the identifier lookup
Inserted == \E k \in 1..Len(writes) : writes[k].op = "insert"
Extracted == \E key \in ExtractionKeys : Has(state.data, key)
IsbnFound == state.final_status = "duplicate_isbn"

\* this step of the run sends the provisional insert, starts the
\* extraction, or sends an enrichment request
InsertStep == Len(writes') = Len(writes) + 1 /\ writes'[Len(writes')].op = "insert"
ExtractStep == ~Extracted /\ Extracted'
CallStep == Len(calls') = Len(calls) + 1

\* C24: the steps of a run are strictly ordered: the hash lookup precedes
\* the provisional insert (the insert is sent only after the hash is known
\* and while no record has it), the insert precedes the extraction, the
\* extraction precedes the identifier lookup, and the identifier lookup
\* precedes the enrichment call (the call is sent only while no processed
\* record has the identifier); at most one enrichment call is issued per
\* run, and none once the status has left pending.
C24_StepOrder ==
    /\ [](/\ Extracted => Inserted
          /\ IsbnFound => Extracted
          /\ calls # <<>> => Inserted /\ Extracted /\ ~IsbnFound
          /\ Len(calls) <= 1
          /\ \A k \in 1..Len(results) : results[k].ncalls <= 1)
    /\ [][/\ InsertStep => /\ Has(state.data, "file_hash")
                           /\ ~FindBookByHash(db, state.data["file_hash"])
                           /\ ~Extracted /\ calls = <<>>
          /\ ExtractStep => Inserted /\ calls = <<>>
          /\ CallStep => /\ state.final_status = "pending"
                         /\ calls = <<>>
                         /\ Extracted
                         /\ Truthy(Get(state.data, "isbn"))
                               => ~FindBookByIsbn(db, state.data["isbn"])]_vars

C24_Witness ==
    /\ Returned
    /\ RunStatus = "processed"
    /\ Inserted /\ Extracted
    /\ Len(calls) = 1
    /\ Len(results) = 1
    /\ GetFileHash(results[1].file) # GetFileHash(state.file_path)

\* an earlier run sent the provisional insert for the content of the
\* current file
InsertedEarlier(i) ==
    /\ GetFileHash(results[i].file) = GetFileHash(state.file_path)
    /\ \E k \in 1..Len(results[i].writes) : results[i].writes[k].op = "insert"

\* the status main_process reads in a result, "exception" when
\* run_pipeline raised
StatusOf(r) == IF r.outcome.raised THEN "exception" ELSE r.outcome.value["status"]

\* C29: the hash lookup ignores the status of the record: once a run has
\* inserted a provisional record for a content hash, every later run on the
\* same content in which hashing and the hash lookup answer ends
\* duplicate_hash, whether the earlier run ended processed or failed or left
\* the record pending, without extraction and without enrichment request;
\* and the batch driver marks a file in the cache after the statuses
\* processed, failed and duplicate_isbn, and after no other.
C29_HashIgnoresStatus ==
    /\ (Returned /\ faults \cap {"hash", "find_hash"} = {})
          => \A i \in 1..Len(results) :
                InsertedEarlier(i)
                   => /\ RunStatus = "duplicate_hash"
                      /\ calls = <<>>
                      /\ ~Extracted
                      /\ ~Inserted
    /\ \A k \in 1..Len(results) :
          (/\ StatusOf(results[k]) \in {"processed", "failed", "duplicate_isbn"}
           /\ redis_client = "connected"
           /\ results[k].sadd_ok)
              => results[k].file.path \in processed_files
    /\ \A path \in processed_files :
          \E k \in 1..Len(results) :
             /\ results[k].file.path = path
             /\ StatusOf(results[k]) \in {"processed", "failed", "duplicate_isbn"}

C29_Witness ==
    /\ pc = "idle"
    /\ Len(results) = 2
    /\ StatusOf(results[1]) = "failed"
    /\ \E k \in 1..Len(results[1].writes) : results[1].writes[k].op = "insert"
    /\ StatusOf(results[2]) = "duplicate_hash"
    /\ GetFileHash(results[1].file) = GetFileHash(results[2].file)
    /\ results[1].file.path # results[2].file.path
    /\ results[1].file.path \in processed_files
    /\ results[2].file.path \notin processed_files

(***************************************************************************)
(* C30.  Two executions of run_pipeline at once on files with the same     *)
(* content, the table refusing a second row with a hash it holds: in every *)
(* interleaving at most one execution creates a provisional record and at  *)
(* most one issues an enrichment call; an execution that created none ends *)
(* duplicate_hash or failed, and has written nothing.                      *)
(***************************************************************************)
Creators == {p \in DOMAIN runs : runs[p].state.book_id # NoId}

Callers == {p \in DOMAIN runs : runs[p].calls # <<>>}

\* the writes of execution p that touch a record created by another
ForeignWrites(p) ==
    {i \in DOMAIN runs[p].writes :
        \E q \in DOMAIN runs \ {p} :
            \E j \in DOMAIN runs[q].writes :
                /\ runs[q].writes[j].op = "insert"
                /\ runs[q].writes[j].id = runs[p].writes[i].id}

C30_OneCreates ==
    /\ Cardinality(Creators) <= 1
    /\ Len(db) <= 1
    /\ Cardinality(Callers) <= 1
    /\ Callers \subseteq Creators
    /\ \A p \in DOMAIN runs :
         /\ ForeignWrites(p) = {}
         /\ p \notin Creators => runs[p].writes = <<>>
         /\ (p \notin Creators /\ runs[p].pc = "returned") =>
                /\ ~runs[p].result.raised
                /\ runs[p].result.value["status"] \in {"duplicate_hash", "failed"}

\* both executions passed the hash lookup before either inserted; one
\* ended processed after its enrichment call, the insert of the other was
\* refused
C30_Witness ==
    /\ DOMAIN runs = Procs
    /\ \E p \in Procs, q \in Procs :
         /\ p # q
         /\ runs[p].pc = "returned" /\ runs[q].pc = "returned"
         /\ ~runs[p].result.raised
         /\ runs[p].result.value["status"] = "processed"
         /\ Len(runs[p].calls) = 1
         /\ ~runs[q].result.raised
         /\ runs[q].result.value["status"] = "failed"
         /\ runs[q].state.error_message = "duplicate key value violates unique constraint"
         /\ runs[q].writes = <<>>

=============================================================================
